---- MODULE Spec2Model ----
(***************************************************************************)
(* Pogo Painter Web: the database-backed game server.                      *)
(*                                                                         *)
(* The state is the three database tables (Game, Player, GameTile), the    *)
(* pending setTimeout callbacks, the socket server's room tracking and the *)
(* position of every request handler that is in flight.  A handler is an   *)
(* async function: it runs from one `await db...` to the next without      *)
(* interruption, so every database operation is one step of the handler    *)
(* and other handlers and timers may run between two steps.                *)
(***************************************************************************)
EXTENDS Integers, Sequences, FiniteSets, TLC

VARIABLES
    db,          \* [game, player, gameTile]: the tables behind `db`
    reqs,        \* the request handlers in flight, one per slot
    stunTimers,  \* pending stun timeouts (3000 ms each, so they fire in order)
    gameTimers,  \* pending time-limit timeouts, a sequence of game ids
    sockets,     \* socket id -> "new" | "connected" | "closed"
    gameRooms,   \* game id -> set of socket ids (setupSocket's Map)
    budget,      \* number of requests begun so far
    hist,        \* the tables at the moment the raced requests were issued
    arg,         \* input of the pure-function specification
    out,         \* its result
    inbox,       \* socket id -> the events emitted to it and not yet handled
    view         \* socket id -> gameState of the client's useGameSocket

vars ==
    <<db, reqs, stunTimers, gameTimers, sockets, gameRooms, budget, hist, arg, out,
      inbox, view>>

----------------------------------------------------------------------------
(* Bounds of the model *)

MaxRequests == 4       \* requests begun in one behaviour
MaxColorChoice == 1    \* Math.random() picks among the first n free colours
MaxCount == 2          \* largest `count` of an add-AI request
MaxSeeded == 1         \* tiles of a new board that may draw a flag or a kind
MaxSeedChoice == 1     \* empty tiles among which a move's reseeding draws
MaxCoord == 3          \* coordinates of the pure adjacency check: -1..MaxCoord
BoardSize == 2         \* boardSize of the game
MaxPlayers == 2        \* maxPlayers of the game
LobbyBoardSize == 1    \* boardSize of the game whose lobby is raced
LobbyRequests == 3     \* requests begun in one behaviour of the raced lobby
PlayRequests == 3      \* requests begun in one behaviour of the running game
LegalityRequests == 2  \* move requests in one behaviour of the legality checks
StartRequests == 5     \* requests and socket events in one behaviour of the status
RelayRequests == 2     \* move requests in one behaviour of the relayed moves
RestartRequests == 3   \* requests and restarts in one behaviour of the restarted game
RoomRequests == 2      \* requests and socket events in one behaviour of the two games
ClientRequests == 3    \* requests and socket events in one behaviour of the clients

(* Program constants *)

NumColors == 6         \* length of the palette
TimeLimit == 120       \* timeLimit of a game, in seconds
Slots == {1, 2}        \* handlers that may be in flight together
TheGame == 1           \* the id of the game the requests address
OtherGame == 2         \* the id of a second game on the same server
Users == {1, 2}        \* human users; user u's browser holds socket u

Null == 0              \* a column without value (tile colour, player id)
NoType == "NONE"       \* powerUpType: null
PowerUpTypes == <<"SPEED", "JUMP", "SPRAY">>

----------------------------------------------------------------------------
(* Helpers *)

Abs(n) == IF n < 0 THEN 0 - n ELSE n
Min(a, b) == IF a < b THEN a ELSE b
Max(a, b) == IF a > b THEN a ELSE b
Range(s) == {s[i] : i \in DOMAIN s}

RECURSIVE Filter(_, _)
\* Array.prototype.filter with the set of kept indices `keep`.
Filter(s, keep) ==
    IF s = <<>> THEN <<>>
    ELSE LET n == Len(s)
             front == Filter(SubSeq(s, 1, n - 1), keep)
         IN IF n \in keep THEN Append(front, s[n]) ELSE front

----------------------------------------------------------------------------
(* The tables *)

\* POST /api/games: a game row with the requested configuration.
NewGame(maxPlayers, timeLimit, boardSize) ==
    [status |-> "WAITING", maxPlayers |-> maxPlayers, timeLimit |-> timeLimit,
     boardSize |-> boardSize]

\* The Player row db.player.create makes; score and status are the columns'
\* defaults.
NewPlayer(id, userId, gameId, color, x, y, isAI) ==
    [id |-> id, userId |-> userId, gameId |-> gameId, color |-> color,
     positionX |-> x, positionY |-> y, score |-> 0, status |-> "ACTIVE",
     isAI |-> isAI]

NewTile(id, gameId, x, y, hasPowerUp, powerUpType) ==
    [id |-> id, gameId |-> gameId, x |-> x, y |-> y, color |-> Null,
     hasPowerUp |-> hasPowerUp, powerUpType |-> powerUpType]

\* game.players / game.tiles of `include: { players: true, tiles: true }`.
PlayersOf(d, g) == Filter(d.player, {i \in DOMAIN d.player : d.player[i].gameId = g})
TilesOf(d, g) == Filter(d.gameTile, {i \in DOMAIN d.gameTile : d.gameTile[i].gameId = g})

NoGame ==
    [found |-> FALSE, status |-> "NONE", maxPlayers |-> 0, boardSize |-> 0,
     players |-> <<>>, tiles |-> <<>>]

\* db.game.findUnique({ where: { id }, include: { players: true } }), and with
\* `tiles: true` when the handler asks for the tiles as well.
FindGame(d, g, withTiles) ==
    IF g \notin DOMAIN d.game THEN NoGame
    ELSE [found |-> TRUE, status |-> d.game[g].status,
          maxPlayers |-> d.game[g].maxPlayers, boardSize |-> d.game[g].boardSize,
          players |-> PlayersOf(d, g),
          tiles |-> IF withTiles THEN TilesOf(d, g) ELSE <<>>]

\* Array.prototype.find: the index of the first element among `match`, or 0.
FindIndex(s, match) ==
    IF match \cap DOMAIN s = {} THEN 0
    ELSE CHOOSE i \in match \cap DOMAIN s : \A j \in match \cap DOMAIN s : i <= j

\* game.players.find(p => p.id === playerId)
FindPlayer(game, playerId) ==
    FindIndex(game.players, {i \in DOMAIN game.players : game.players[i].id = playerId})

\* game.tiles.find(t => t.x === x && t.y === y)
FindTile(game, x, y) ==
    FindIndex(game.tiles,
              {i \in DOMAIN game.tiles : game.tiles[i].x = x /\ game.tiles[i].y = y})

\* db.player.update({ where: { id }, data })
UpdatePlayer(d, id, data) ==
    [d EXCEPT !.player = [i \in DOMAIN d.player |->
        IF d.player[i].id = id
        THEN [f \in DOMAIN d.player[i] |->
                 IF f \in DOMAIN data THEN data[f] ELSE d.player[i][f]]
        ELSE d.player[i]]]

\* db.gameTile.update({ where: { id }, data })
UpdateTile(d, id, data) ==
    [d EXCEPT !.gameTile = [i \in DOMAIN d.gameTile |->
        IF d.gameTile[i].id = id
        THEN [f \in DOMAIN d.gameTile[i] |->
                 IF f \in DOMAIN data THEN data[f] ELSE d.gameTile[i][f]]
        ELSE d.gameTile[i]]]

\* db.game.update({ where: { id }, data: { status } })
UpdateGameStatus(d, g, status) == [d EXCEPT !.game[g].status = status]

----------------------------------------------------------------------------
(* Request handlers: the record a handler keeps between two awaits *)

Idle ==
    [kind |-> "none", pc |-> "idle", gameId |-> 0, playerId |-> 0, userId |-> 0,
     x |-> 0, y |-> 0, count |-> 0, game |-> NoGame, newScore |-> 0, i |-> 0,
     j |-> 0, stunned |-> 0, seedTile |-> 0, seedType |-> NoType, powerUpCollected |-> NoType,
     response |-> "none"]

\* NextResponse.json(...): the handler ends; what is left of it is the kind
\* of the request and the response (with powerUpCollected, for a move).
Respond(req, response) ==
    [Idle EXCEPT !.kind = req.kind, !.pc = "done", !.response = response,
                 !.powerUpCollected = req.powerUpCollected]

\* What one step of a handler yields: the tables, the handler's record and
\* the timeouts it has set.
Yield(d, req, stun, timeout) == [db |-> d, req |-> req, stun |-> stun, timeout |-> timeout]

----------------------------------------------------------------------------
(* POST /api/games/[id]/join *)

Palette == [c \in 1..NumColors |-> c]

\* colors.filter(color => !game.players.some(p => p.color === color))
availableColors(game) ==
    Filter(Palette, {c \in 1..NumColors :
                        \A i \in DOMAIN game.players : game.players[i].color # c})

\* The checks of the join endpoint, in the order of the code.
JoinError(game, userId) ==
    IF ~game.found THEN "Game not found"
    ELSE IF game.status # "WAITING" THEN "Game is not accepting new players"
    ELSE IF Len(game.players) >= game.maxPlayers THEN "Game is full"
    ELSE IF \E i \in DOMAIN game.players : game.players[i].userId = userId
         THEN "User is already in this game"
    ELSE "OK"

\* availableColors[Math.floor(Math.random() * availableColors.length)] || colors[0]
\* with the random index `pick` (1-based).
playerColor(game, pick) ==
    LET avail == availableColors(game)
    IN IF pick \in DOMAIN avail THEN avail[pick] ELSE Palette[1]

\* The random indices the model draws: the first MaxColorChoice free colours.
ColorPicks(game) ==
    IF availableColors(game) = <<>> THEN {1}
    ELSE 1..Min(Len(availableColors(game)), MaxColorChoice)

\* Math.floor(Math.random() * game.boardSize)
RandomCoords(game) == 0..(game.boardSize - 1)

\* One draw of the two Math.random() calls of a tile: hasPowerUp and
\* powerUpType are drawn independently of each other.
TileDraw == [hasPowerUp : BOOLEAN, powerUpType : {NoType} \cup Range(PowerUpTypes)]
PlainDraw == [hasPowerUp |-> FALSE, powerUpType |-> NoType]

\* The draws of the n tiles of one board that the model explores: among the
\* first `seeded` tiles at most one departs from the likely draw (no flag, no
\* kind).
TileDraws(n, seeded) ==
    {[k \in 1..n |-> PlainDraw]} \cup
    {[k \in 1..n |-> IF k = j THEN dr ELSE PlainDraw] :
        j \in 1..Min(n, seeded), dr \in TileDraw \ {PlainDraw}}

\* The tiles array of the join endpoint: for x, for y, push.
InitialTiles(firstId, gameId, boardSize, draw) ==
    [k \in 1..(boardSize * boardSize) |->
        NewTile(firstId + k - 1, gameId, (k - 1) \div boardSize, (k - 1) % boardSize,
                draw[k].hasPowerUp, draw[k].powerUpType)]

JoinRnd(req, seeded) ==
    IF req.pc = "create"
    THEN [pick : ColorPicks(req.game), x : RandomCoords(req.game),
          y : RandomCoords(req.game), draw : {<<>>}]
    ELSE IF req.pc = "tiles"
    THEN [pick : {0}, x : {0}, y : {0},
          draw : TileDraws(req.game.boardSize * req.game.boardSize, seeded)]
    ELSE [pick : {0}, x : {0}, y : {0}, draw : {<<>>}]

JoinStepFn(d, req, rnd) ==
    CASE req.pc = "read" ->
           LET game == FindGame(d, req.gameId, FALSE)
               error == JoinError(game, req.userId)
           IN IF error # "OK" THEN Yield(d, Respond(req, error), <<>>, <<>>)
              ELSE Yield(d, [req EXCEPT !.pc = "create", !.game = game], <<>>, <<>>)
      [] req.pc = "create" ->
           LET player == NewPlayer(Len(d.player) + 1, req.userId, req.gameId,
                                   playerColor(req.game, rnd.pick), rnd.x, rnd.y, FALSE)
           IN Yield([d EXCEPT !.player = Append(@, player)],
                    [req EXCEPT !.pc = "tiles", !.playerId = player.id], <<>>, <<>>)
      [] req.pc = "tiles" ->
           Yield([d EXCEPT !.gameTile =
                     @ \o InitialTiles(Len(@) + 1, req.gameId, req.game.boardSize, rnd.draw)],
                 Respond(req, "OK"), <<>>, <<>>)

----------------------------------------------------------------------------
(* POST /api/games/[id]/add-ai *)

\* `ai-${gameId}-${i}`: a string no user id equals, one per game and index.
AiUserId(gameId, i) == 0 - (gameId * 1000 + i + 1)

aiPlayersToAdd(game, count) == Min(count, game.maxPlayers - Len(game.players))

AddAiError(game, count) ==
    IF ~game.found THEN "Game not found"
    ELSE IF game.status # "WAITING" THEN "Cannot add AI players to a game in progress"
    ELSE IF aiPlayersToAdd(game, count) <= 0 THEN "No available slots for AI players"
    ELSE "OK"

\* availableColors[i] || aiColors[i % aiColors.length], i counted from 0
aiColor(game, i) ==
    LET avail == availableColors(game)
    IN IF i + 1 \in DOMAIN avail THEN avail[i + 1] ELSE Palette[(i % NumColors) + 1]

AddAiRnd(req) ==
    IF req.pc = "create"
    THEN [x : RandomCoords(req.game), y : RandomCoords(req.game)]
    ELSE [x : {0}, y : {0}]

AddAiStepFn(d, req, rnd) ==
    CASE req.pc = "read" ->
           LET game == FindGame(d, req.gameId, FALSE)
               error == AddAiError(game, req.count)
           IN IF error # "OK" THEN Yield(d, Respond(req, error), <<>>, <<>>)
              ELSE Yield(d, [req EXCEPT !.pc = "create", !.game = game, !.i = 0], <<>>, <<>>)
      [] req.pc = "create" ->
           LET aiPlayer == NewPlayer(Len(d.player) + 1, AiUserId(req.gameId, req.i),
                                     req.gameId, aiColor(req.game, req.i), rnd.x, rnd.y, TRUE)
               d2 == [d EXCEPT !.player = Append(@, aiPlayer)]
           IN IF req.i + 1 < aiPlayersToAdd(req.game, req.count)
              THEN Yield(d2, [req EXCEPT !.i = @ + 1], <<>>, <<>>)
              ELSE Yield(d2, Respond(req, "OK"), <<>>, <<>>)

----------------------------------------------------------------------------
(* POST /api/games/[id]/start *)

StartError(game) ==
    IF ~game.found THEN "Game not found"
    ELSE IF game.status # "WAITING" THEN "Game is already started or finished"
    ELSE IF Len(game.players) < 2 THEN "Need at least 2 players to start the game"
    ELSE "OK"

StartStepFn(d, req) ==
    CASE req.pc = "read" ->
           LET game == FindGame(d, req.gameId, FALSE)
               error == StartError(game)
           IN IF error # "OK" THEN Yield(d, Respond(req, error), <<>>, <<>>)
              ELSE Yield(d, [req EXCEPT !.pc = "update"], <<>>, <<>>)
      [] req.pc = "update" ->
           \* the game row is updated, then setTimeout(..., timeLimit * 1000)
           Yield(UpdateGameStatus(d, req.gameId, "PLAYING"), Respond(req, "OK"),
                 <<>>, <<req.gameId>>)

----------------------------------------------------------------------------
(* POST /api/games/[id]/move *)

\* The test without its third case: the diagonal neighbours are refused.
isValidMoveNoDiagonal(px, py, x, y) ==
    LET dx == Abs(x - px)
        dy == Abs(y - py)
    IN (dx = 1 /\ dy = 0) \/ (dx = 0 /\ dy = 1)

\* (dx === 1 && dy === 0) || (dx === 0 && dy === 1) || (dx === 1 && dy === 1)
isValidMove(px, py, x, y) ==
    LET dx == Abs(x - px)
        dy == Abs(y - py)
    IN (dx = 1 /\ dy = 0) \/ (dx = 0 /\ dy = 1) \/ (dx = 1 /\ dy = 1)

\* The same test in the socket server's 'player-move' handler.
socketIsValidMove(px, py, x, y) ==
    LET dx == Abs(x - px)
        dy == Abs(y - py)
    IN (dx = 1 /\ dy = 0) \/ (dx = 0 /\ dy = 1) \/ (dx = 1 /\ dy = 1)

\* The same test in the grid's handleTileClick, which calls onMove(x, y) when
\* it holds.
handleTileClick(px, py, x, y) ==
    LET dx == Abs(x - px)
        dy == Abs(y - py)
    IN (dx = 1 /\ dy = 0) \/ (dx = 0 /\ dy = 1) \/ (dx = 1 /\ dy = 1)

\* The bounds test with > for >= : the row and column boardSize are let in.
OutOfBoundsOffByOne(game, x, y) == x < 0 \/ x > game.boardSize \/ y < 0 \/ y > game.boardSize

\* x < 0 || x >= game.boardSize || y < 0 || y >= game.boardSize
OutOfBounds(game, x, y) == x < 0 \/ x >= game.boardSize \/ y < 0 \/ y >= game.boardSize

\* The checks without the bounds check.
MoveErrorNoBounds(game, playerId, x, y) ==
    IF ~game.found THEN "Game not found"
    ELSE IF game.status # "PLAYING" THEN "Game is not in progress"
    ELSE LET k == FindPlayer(game, playerId)
         IN IF k = 0 THEN "Player not found"
            ELSE IF game.players[k].status # "ACTIVE" THEN "Player cannot move right now"
            ELSE IF ~isValidMove(game.players[k].positionX, game.players[k].positionY, x, y)
                 THEN "Invalid move"
            ELSE "OK"

\* The checks with the bounds check before the adjacency check.
MoveErrorBoundsFirst(game, playerId, x, y) ==
    IF ~game.found THEN "Game not found"
    ELSE IF game.status # "PLAYING" THEN "Game is not in progress"
    ELSE LET k == FindPlayer(game, playerId)
         IN IF k = 0 THEN "Player not found"
            ELSE IF game.players[k].status # "ACTIVE" THEN "Player cannot move right now"
            ELSE IF OutOfBounds(game, x, y) THEN "Move out of bounds"
            ELSE IF ~isValidMove(game.players[k].positionX, game.players[k].positionY, x, y)
                 THEN "Invalid move"
            ELSE "OK"

\* The checks of the move endpoint, in the order of the code.
MoveError(game, playerId, x, y) ==
    IF ~game.found THEN "Game not found"
    ELSE IF game.status # "PLAYING" THEN "Game is not in progress"
    ELSE LET k == FindPlayer(game, playerId)
         IN IF k = 0 THEN "Player not found"
            ELSE IF game.players[k].status # "ACTIVE" THEN "Player cannot move right now"
            ELSE IF ~isValidMove(game.players[k].positionX, game.players[k].positionY, x, y)
                 THEN "Invalid move"
            ELSE IF OutOfBounds(game, x, y) THEN "Move out of bounds"
            ELSE "OK"

\* game.players.find(p => p.positionX === x && p.positionY === y && p.id !== playerId):
\* the id of the player found, or Null.
targetPlayer(game, playerId, x, y) ==
    LET k == FindIndex(game.players,
                 {i \in DOMAIN game.players :
                     /\ game.players[i].positionX = x
                     /\ game.players[i].positionY = y
                     /\ game.players[i].id # playerId})
    IN IF k = 0 THEN Null ELSE game.players[k].id

\* The stun of the player on the target tile: the row is updated, then
\* setTimeout(..., 3000) is set.
StunWrite(d, target) == UpdatePlayer(d, target, [status |-> "STUNNED"])

\* A position update that an occupied target blocks.
PositionWriteBlocked(d, playerId, x, y) ==
    IF \E i \in DOMAIN d.player :
          d.player[i].id # playerId /\ d.player[i].positionX = x /\ d.player[i].positionY = y
    THEN d
    ELSE UpdatePlayer(d, playerId, [positionX |-> x, positionY |-> y])

\* db.player.update({ where: { id: playerId }, data: { positionX: x, positionY: y } })
PositionWrite(d, playerId, x, y) == UpdatePlayer(d, playerId, [positionX |-> x, positionY |-> y])

\* A point for every landing, own tiles included.
PaintPointAlways(tile, color) == 1

\* !targetTile.color || targetTile.color !== player.color : one point
PaintPoint(tile, color) == IF tile.color = Null \/ tile.color # color THEN 1 ELSE 0

\* The switch without its JUMP case.
PowerUpBonusNoJump(tile) ==
    IF tile.hasPowerUp /\ tile.powerUpType = "SPEED" THEN 2 ELSE 0

\* The switch on targetTile.powerUpType, without the SPRAY loop.
PowerUpBonus(tile) ==
    IF tile.hasPowerUp /\ tile.powerUpType \in {"SPEED", "JUMP"} THEN 2 ELSE 0

\* game.tiles.filter(t => |t.x - x| <= 1 && |t.y - y| <= 1 && !(t.x === x && t.y === y))
adjacentTiles(game, x, y) ==
    Filter(game.tiles,
           {i \in DOMAIN game.tiles :
               /\ Abs(game.tiles[i].x - x) <= 1
               /\ Abs(game.tiles[i].y - y) <= 1
               /\ ~(game.tiles[i].x = x /\ game.tiles[i].y = y)})

\* The handler after the position update: newScore, powerUpCollected, and
\* which update it awaits next.
AfterPosition(req, player) ==
    LET t == FindTile(req.game, req.x, req.y)
    IN IF t = 0 THEN [req EXCEPT !.pc = "score", !.newScore = player.score]
       ELSE LET tile == req.game.tiles[t]
                score == player.score + PaintPoint(tile, player.color) + PowerUpBonus(tile)
                spray == /\ tile.hasPowerUp
                         /\ tile.powerUpType = "SPRAY"
                         /\ adjacentTiles(req.game, req.x, req.y) # <<>>
            IN [req EXCEPT !.pc = IF spray THEN "spray" ELSE "tile",
                           !.j = IF spray THEN 1 ELSE 0,
                           !.newScore = score,
                           !.powerUpCollected =
                               IF tile.hasPowerUp THEN tile.powerUpType ELSE NoType]

\* One turn of `for (const tile of adjacentTiles)`.
SprayWrite(d, req, color) ==
    LET adj == adjacentTiles(req.game, req.x, req.y)
    IN Yield(UpdateTile(d, adj[req.j].id, [color |-> color]),
             [req EXCEPT !.newScore = @ + 1,
                         !.j = IF req.j < Len(adj) THEN @ + 1 ELSE 0,
                         !.pc = IF req.j < Len(adj) THEN "spray" ELSE "tile"],
             <<>>, <<>>)

\* db.gameTile.update of the target tile: painted, power-up removed.
TileWrite(d, req, color) ==
    UpdateTile(d, req.game.tiles[FindTile(req.game, req.x, req.y)].id,
               [color |-> color, hasPowerUp |-> FALSE, powerUpType |-> NoType])

\* updatedGame.tiles.filter(t => !t.color && !t.hasPowerUp)
emptyTiles(game) ==
    Filter(game.tiles, {i \in DOMAIN game.tiles :
                           game.tiles[i].color = Null /\ ~game.tiles[i].hasPowerUp})

\* The random draws after the second read: Math.random() < 0.1, then a tile of
\* emptyTiles and a kind.  seedTile = 0: no power-up is added.
SeedChoices(game, choice) ==
    {[seedTile |-> 0, seedType |-> NoType]} \cup
    {[seedTile |-> emptyTiles(game)[k].id, seedType |-> PowerUpTypes[n]] :
        k \in 1..Min(Len(emptyTiles(game)), choice), n \in DOMAIN PowerUpTypes}

MoveRnd(d, req, choice) ==
    IF req.pc = "reread" THEN SeedChoices(FindGame(d, req.gameId, TRUE), choice)
    ELSE {[seedTile |-> 0, seedType |-> NoType]}

MoveStepFn(d, req, rnd) ==
    LET k == FindPlayer(req.game, req.playerId)
        player == req.game.players[k]
    IN
    CASE req.pc = "read" ->
           LET game == FindGame(d, req.gameId, TRUE)
               error == MoveError(game, req.playerId, req.x, req.y)
           IN IF error # "OK" THEN Yield(d, Respond(req, error), <<>>, <<>>)
              ELSE Yield(d, [req EXCEPT !.game = game,
                                        !.pc = IF targetPlayer(game, req.playerId, req.x, req.y) # Null
                                               THEN "stun" ELSE "position"],
                         <<>>, <<>>)
      [] req.pc = "stun" ->
           LET target == targetPlayer(req.game, req.playerId, req.x, req.y)
           IN Yield(StunWrite(d, target), [req EXCEPT !.pc = "position", !.stunned = target],
                    <<target>>, <<>>)
      [] req.pc = "position" ->
           Yield(PositionWrite(d, req.playerId, req.x, req.y), AfterPosition(req, player),
                 <<>>, <<>>)
      [] req.pc = "spray" -> SprayWrite(d, req, player.color)
      [] req.pc = "tile" ->
           Yield(TileWrite(d, req, player.color), [req EXCEPT !.pc = "score"], <<>>, <<>>)
      [] req.pc = "score" ->
           Yield(UpdatePlayer(d, req.playerId, [score |-> req.newScore]),
                 [req EXCEPT !.pc = "reread", !.game = NoGame], <<>>, <<>>)
      [] req.pc = "reread" ->
           \* updatedGame is read; the draws decide whether a tile is seeded
           IF rnd.seedTile = 0 THEN Yield(d, Respond(req, "OK"), <<>>, <<>>)
           ELSE Yield(d, [req EXCEPT !.pc = "reseed",
                                     !.seedTile = rnd.seedTile, !.seedType = rnd.seedType],
                      <<>>, <<>>)
      [] req.pc = "reseed" ->
           Yield(UpdateTile(d, req.seedTile, [hasPowerUp |-> TRUE, powerUpType |-> req.seedType]),
                 Respond(req, "OK"), <<>>, <<>>)

----------------------------------------------------------------------------
(* The AI endpoint (second POST of games/route.ts): one move for every      *)
(* active AI player of every game that is PLAYING.  The tables of the model *)
(* hold one game, so activeGames has at most that game.                     *)

\* db.game.findMany({ where: { status: 'PLAYING' }, include: { players: { where:
\* { isAI: true, status: 'ACTIVE' } }, tiles: true } }), for the game g.
FindActiveGame(d, g) ==
    LET game == FindGame(d, g, TRUE)
    IN IF ~game.found \/ game.status # "PLAYING" THEN NoGame
       ELSE [game EXCEPT !.players =
                Filter(@, {i \in DOMAIN @ : @[i].isAI /\ @[i].status = "ACTIVE"})]

\* possibleMoves of calculateAIMove: the neighbours within the board.
possibleMoves(aiPlayer, game) ==
    {m \in [x : {aiPlayer.positionX - 1, aiPlayer.positionX, aiPlayer.positionX + 1},
            y : {aiPlayer.positionY - 1, aiPlayer.positionY, aiPlayer.positionY + 1}] :
        /\ ~(m.x = aiPlayer.positionX /\ m.y = aiPlayer.positionY)
        /\ m.x >= 0 /\ m.x < game.boardSize /\ m.y >= 0 /\ m.y < game.boardSize}

\* The score calculateAIMove gives a move before `Math.random() * 5` is added.
MoveScore(aiPlayer, game, m) ==
    LET t == FindTile(game, m.x, m.y)
        onTile == targetPlayer(game, aiPlayer.id, m.x, m.y)
        friendly == Cardinality({i \in DOMAIN game.tiles :
                        /\ Abs(game.tiles[i].x - m.x) <= 1
                        /\ Abs(game.tiles[i].y - m.y) <= 1
                        /\ game.tiles[i].color = aiPlayer.color})
    IN (IF t = 0 \/ game.tiles[t].color = Null \/ game.tiles[t].color # aiPlayer.color
        THEN 10 ELSE 0)
       + (IF t # 0 /\ game.tiles[t].hasPowerUp THEN 20 ELSE 0)
       \* the players of the snapshot are all AI players
       + (IF onTile # Null THEN 0 - 5 ELSE 0)
       + friendly * 2

\* The moves calculateAIMove can return: the random term is in [0, 5), so a
\* move wins for some draw iff no other move scores 5 or more above it.
calculateAIMove(aiPlayer, game) ==
    {m \in possibleMoves(aiPlayer, game) :
        \A o \in possibleMoves(aiPlayer, game) :
            MoveScore(aiPlayer, game, m) + 5 > MoveScore(aiPlayer, game, o)}

\* The next AI player of the snapshot, from index i on, for which
\* calculateAIMove returns a move; 0 when there is none.
NextAiPlayer(game, i) ==
    FindIndex(game.players,
              {k \in DOMAIN game.players :
                  k >= i /\ possibleMoves(game.players[k], game) # {}})

AiRnd(d, req) ==
    LET game == IF req.pc = "read" THEN FindActiveGame(d, req.gameId) ELSE req.game
        k == NextAiPlayer(game, IF req.pc = "read" THEN 1 ELSE req.i + 1)
    IN IF req.pc \in {"read", "score"} /\ k # 0
       THEN calculateAIMove(game.players[k], game)
       ELSE {[x |-> 0, y |-> 0]}

\* The loop over game.players up to the next position update.
AiTurn(req, game, from, move) ==
    LET k == NextAiPlayer(game, from)
    IN IF k = 0 THEN Respond(req, "OK")
       ELSE [req EXCEPT !.game = game, !.i = k, !.playerId = game.players[k].id,
                        !.x = move.x, !.y = move.y, !.pc = "position"]

AiMoveStepFn(d, req, rnd) ==
    LET aiPlayer == req.game.players[req.i]
    IN
    CASE req.pc = "read" ->
           Yield(d, AiTurn(req, FindActiveGame(d, req.gameId), 1, rnd), <<>>, <<>>)
      [] req.pc = "position" ->
           Yield(PositionWrite(d, aiPlayer.id, req.x, req.y), AfterPosition(req, aiPlayer),
                 <<>>, <<>>)
      [] req.pc = "spray" -> SprayWrite(d, req, aiPlayer.color)
      [] req.pc = "tile" ->
           Yield(TileWrite(d, req, aiPlayer.color), [req EXCEPT !.pc = "score"], <<>>, <<>>)
      [] req.pc = "score" ->
           Yield(UpdatePlayer(d, aiPlayer.id, [score |-> req.newScore]),
                 AiTurn(req, req.game, req.i + 1, rnd), <<>>, <<>>)

----------------------------------------------------------------------------
(* The socket server's events and the state the client keeps *)

\* An event on its way to a client: its name, the game it is about, and the
\* fields of its payload that the event carries.
Message(event, gameId) ==
    [event |-> event, gameId |-> gameId, game |-> NoGame, playerId |-> 0, x |-> 0, y |-> 0,
     color |-> 0, message |-> "none"]

\* socket.emit('error', { message })
ErrorMessage(gameId, message) == [Message("error", gameId) EXCEPT !.message = message]

NoMail == [s \in Users |-> <<>>]
NoViews == [s \in Users |-> NoGame]

\* emit: the message is queued for every socket of `targets`.
Emit(box, targets, m) ==
    [s \in DOMAIN box |-> IF s \in targets THEN Append(box[s], m) ELSE box[s]]

\* A broadcast that reaches the sockets of every room.
RoomEveryone(rooms, gameId) == UNION {rooms[g] : g \in DOMAIN rooms}

\* The sockets of the room `game-${gameId}`.
Room(rooms, gameId) == IF gameId \in DOMAIN rooms THEN rooms[gameId] ELSE {}

\* socket.join(`game-${gameId}`) and gameRooms.get(gameId).add(socket.id)
JoinRoom(rooms, gameId, s) ==
    [g \in DOMAIN rooms \cup {gameId} |-> IF g = gameId THEN Room(rooms, g) \cup {s} ELSE rooms[g]]

Connected(socks, targets) == {s \in targets : socks[s] = "connected"}

\* on('player-moved'): the position of that player in the client's state.
MovedView(v, m) ==
    [v EXCEPT !.players = [i \in DOMAIN v.players |->
        IF v.players[i].id = m.playerId
        THEN [v.players[i] EXCEPT !.positionX = m.x, !.positionY = m.y]
        ELSE v.players[i]]]

\* The client's gameState after the handler of event m has run.
OnEvent(v, m) ==
    CASE m.event = "game-state" -> m.game
      [] m.event = "game-started" -> IF v.found THEN [m.game EXCEPT !.tiles = v.tiles] ELSE v
      [] m.event = "player-moved" -> IF v.found THEN MovedView(v, m) ELSE v
      [] OTHER -> v

----------------------------------------------------------------------------
(* Actions *)

\* A handler's step takes effect: tables, its own record, new timeouts.
Effect(r, y) ==
    /\ db' = y.db
    /\ reqs' = [reqs EXCEPT ![r] = y.req]
    /\ stunTimers' = stunTimers \o y.stun
    /\ gameTimers' = gameTimers \o y.timeout

Free(r) == reqs[r].pc \in {"idle", "done"}

Request(kind, gameId) == [Idle EXCEPT !.kind = kind, !.pc = "read", !.gameId = gameId]

\* A request arrives and its handler runs up to its first await.
Join(r, gameId, userId) ==
    /\ Free(r)
    /\ Effect(r, JoinStepFn(db, [Request("join", gameId) EXCEPT !.userId = userId],
                            [pick |-> 0, x |-> 0, y |-> 0, draw |-> <<>>]))
    /\ budget' = budget + 1
    /\ UNCHANGED <<sockets, gameRooms, hist, arg, out, inbox, view>>

JoinStep(r, seeded) ==
    /\ reqs[r].kind = "join" /\ reqs[r].pc \notin {"idle", "done"}
    /\ \E rnd \in JoinRnd(reqs[r], seeded) : Effect(r, JoinStepFn(db, reqs[r], rnd))
    /\ UNCHANGED <<sockets, gameRooms, budget, hist, arg, out, inbox, view>>

AddAi(r, gameId, count) ==
    /\ Free(r)
    /\ Effect(r, AddAiStepFn(db, [Request("add-ai", gameId) EXCEPT !.count = count],
                             [x |-> 0, y |-> 0]))
    /\ budget' = budget + 1
    /\ UNCHANGED <<sockets, gameRooms, hist, arg, out, inbox, view>>

AddAiStep(r) ==
    /\ reqs[r].kind = "add-ai" /\ reqs[r].pc \notin {"idle", "done"}
    /\ \E rnd \in AddAiRnd(reqs[r]) : Effect(r, AddAiStepFn(db, reqs[r], rnd))
    /\ UNCHANGED <<sockets, gameRooms, budget, hist, arg, out, inbox, view>>

Start(r, gameId) ==
    /\ Free(r)
    /\ Effect(r, StartStepFn(db, Request("start", gameId)))
    /\ budget' = budget + 1
    /\ UNCHANGED <<sockets, gameRooms, hist, arg, out, inbox, view>>

StartStep(r) ==
    /\ reqs[r].kind = "start" /\ reqs[r].pc \notin {"idle", "done"}
    /\ Effect(r, StartStepFn(db, reqs[r]))
    /\ UNCHANGED <<sockets, gameRooms, budget, hist, arg, out, inbox, view>>

Move(r, gameId, playerId, x, y) ==
    /\ Free(r)
    /\ Effect(r, MoveStepFn(db, [Request("move", gameId) EXCEPT
                                    !.playerId = playerId, !.x = x, !.y = y],
                            [seedTile |-> 0, seedType |-> NoType]))
    /\ budget' = budget + 1
    /\ UNCHANGED <<sockets, gameRooms, hist, out, inbox, view>>

MoveStep(r, choice) ==
    /\ reqs[r].kind = "move" /\ reqs[r].pc \notin {"idle", "done"}
    /\ \E rnd \in MoveRnd(db, reqs[r], choice) : Effect(r, MoveStepFn(db, reqs[r], rnd))
    /\ UNCHANGED <<sockets, gameRooms, budget, hist, arg, out, inbox, view>>

AiMove(r, gameId) ==
    /\ Free(r)
    /\ \E rnd \in AiRnd(db, Request("ai-move", gameId)) :
           Effect(r, AiMoveStepFn(db, Request("ai-move", gameId), rnd))
    /\ budget' = budget + 1
    /\ UNCHANGED <<sockets, gameRooms, hist, arg, out, inbox, view>>

AiMoveStep(r) ==
    /\ reqs[r].kind = "ai-move" /\ reqs[r].pc \notin {"idle", "done"}
    /\ \E rnd \in AiRnd(db, reqs[r]) : Effect(r, AiMoveStepFn(db, reqs[r], rnd))
    /\ UNCHANGED <<sockets, gameRooms, budget, hist, arg, out, inbox, view>>

\* A timeout that is dropped without its callback's update.
StunTimeoutLost ==
    /\ stunTimers # <<>>
    /\ stunTimers' = Tail(stunTimers)
    /\ UNCHANGED <<db, reqs, gameTimers, sockets, gameRooms, budget, hist, arg,
                   out, inbox, view>>

\* The callback of the stun's setTimeout: the player is ACTIVE again.
StunTimeout ==
    /\ stunTimers # <<>>
    /\ db' = UpdatePlayer(db, Head(stunTimers), [status |-> "ACTIVE"])
    /\ stunTimers' = Tail(stunTimers)
    /\ UNCHANGED <<reqs, gameTimers, sockets, gameRooms, budget, hist, arg, out, inbox, view>>

\* The callback of the start endpoint's setTimeout: the game is FINISHED.
GameTimeout ==
    /\ gameTimers # <<>>
    /\ db' = UpdateGameStatus(db, Head(gameTimers), "FINISHED")
    /\ gameTimers' = Tail(gameTimers)
    /\ UNCHANGED <<reqs, stunTimers, sockets, gameRooms, budget, hist, arg, out, inbox, view>>

\* socket.on('start-game'): db.game.update({ data: { status: 'PLAYING' } }) with
\* no check and no timeout, then 'game-started' to the room; the update of a
\* game that does not exist throws and the socket is sent 'Failed to start
\* game'.
SocketStartGame(s, gameId) ==
    /\ sockets[s] = "connected"
    /\ db' = IF gameId \in DOMAIN db.game THEN UpdateGameStatus(db, gameId, "PLAYING") ELSE db
    /\ inbox' = IF gameId \in DOMAIN db.game
                THEN Emit(inbox, Room(gameRooms, gameId),
                          [Message("game-started", gameId) EXCEPT
                              !.game = FindGame(db', gameId, FALSE)])
                ELSE Emit(inbox, {s}, ErrorMessage(gameId, "Failed to start game"))
    /\ budget' = budget + 1
    /\ UNCHANGED <<reqs, stunTimers, gameTimers, sockets, gameRooms, hist, arg, out, view>>

\* socket.on('join-game') up to its first await: db.game.findUnique is
\* issued for the connected socket s; the handler goes on in a later step
\* with the game that was read.
SocketJoinGame(r, s, gameId) ==
    /\ Free(r)
    /\ sockets[s] = "connected"
    /\ reqs' = [reqs EXCEPT ![r] =
                   [Request("join-game", gameId) EXCEPT
                       !.pc = "room", !.userId = s,
                       !.game = FindGame(db, gameId, FALSE)]]
    /\ budget' = budget + 1
    /\ UNCHANGED <<db, stunTimers, gameTimers, sockets, gameRooms, hist, arg, out, inbox, view>>

\* The continuation with socket.join and the gameRooms entry ahead of the
\* test of the game that was read.
SocketJoinGameRoomUnverified(r) ==
    LET req == reqs[r]
    IN /\ req.kind = "join-game" /\ req.pc = "room"
       /\ gameRooms' = JoinRoom(gameRooms, req.gameId, req.userId)
       /\ IF ~req.game.found
          THEN /\ reqs' = [reqs EXCEPT ![r] = Respond(req, "Game not found")]
               /\ inbox' = Emit(inbox, Connected(sockets, {req.userId}),
                                ErrorMessage(req.gameId, "Game not found"))
          ELSE /\ reqs' = [reqs EXCEPT ![r] = [req EXCEPT !.pc = "tiles"]]
               /\ inbox' = Emit(inbox, Connected(sockets, Room(gameRooms, req.gameId) \ {req.userId}),
                                Message("player-joined", req.gameId))
       /\ UNCHANGED <<db, stunTimers, gameTimers, sockets, budget, hist, arg, out, view>>

\* After findUnique: 'error' to the socket and return when there is no game;
\* otherwise socket.join, the gameRooms entry and 'player-joined' to the
\* others of the room, whether or not the socket is still connected.
SocketJoinGameRoom(r) ==
    LET req == reqs[r]
    IN /\ req.kind = "join-game" /\ req.pc = "room"
       /\ IF ~req.game.found
          THEN /\ reqs' = [reqs EXCEPT ![r] = Respond(req, "Game not found")]
               /\ gameRooms' = gameRooms
               /\ inbox' = Emit(inbox, Connected(sockets, {req.userId}),
                                ErrorMessage(req.gameId, "Game not found"))
          ELSE /\ reqs' = [reqs EXCEPT ![r] = [req EXCEPT !.pc = "tiles"]]
               /\ gameRooms' = JoinRoom(gameRooms, req.gameId, req.userId)
               /\ inbox' = Emit(inbox, Connected(sockets, Room(gameRooms, req.gameId) \ {req.userId}),
                                Message("player-joined", req.gameId))
       /\ UNCHANGED <<db, stunTimers, gameTimers, sockets, budget, hist, arg, out, view>>

\* The rest of the 'join-game' handler: findMany of the tiles, then
\* 'game-state' to the joining socket with the game read at the first await.
SocketJoinGameTiles(r) ==
    /\ reqs[r].kind = "join-game" /\ reqs[r].pc = "tiles"
    /\ inbox' = Emit(inbox, Connected(sockets, {reqs[r].userId}),
                     [Message("game-state", reqs[r].gameId) EXCEPT
                         !.game = [reqs[r].game EXCEPT
                                      !.tiles = TilesOf(db, reqs[r].gameId)]])
    /\ reqs' = [reqs EXCEPT ![r] = Respond(reqs[r], "OK")]
    /\ UNCHANGED <<db, stunTimers, gameTimers, sockets, gameRooms, budget, hist, arg, out, view>>

\* A continuation of the 'join-game' handler of slot r.
SocketJoinGameStep(r) == SocketJoinGameRoom(r) \/ SocketJoinGameTiles(r)

\* What socket.on('player-move') emits for { gameId, playerId, x, y }: an
\* 'error' to the sender, or 'player-moved' to the room.  There is no test of
\* the board's bounds and no write.
SocketMoveError(game, playerId, x, y) ==
    LET p == FindPlayer(game, playerId)
    IN IF ~game.found \/ game.status # "PLAYING" THEN "Game not active"
       ELSE IF p = 0 \/ game.players[p].status # "ACTIVE" THEN "Player cannot move"
       ELSE IF ~socketIsValidMove(game.players[p].positionX, game.players[p].positionY, x, y)
            THEN "Invalid move"
       ELSE "OK"

PlayerMoveEmits(box, rooms, d, s, gameId, playerId, x, y) ==
    LET game == FindGame(d, gameId, TRUE)
        error == SocketMoveError(game, playerId, x, y)
    IN IF error # "OK" THEN Emit(box, {s}, ErrorMessage(gameId, error))
       ELSE Emit(box, Room(rooms, gameId),
                 [Message("player-moved", gameId) EXCEPT
                     !.playerId = playerId, !.x = x, !.y = y,
                     !.color = game.players[FindPlayer(game, playerId)].color])

SocketPlayerMove(s, gameId, playerId, x, y) ==
    /\ sockets[s] = "connected"
    /\ inbox' = PlayerMoveEmits(inbox, gameRooms, db, s, gameId, playerId, x, y)
    /\ budget' = budget + 1
    /\ UNCHANGED <<db, reqs, stunTimers, gameTimers, sockets, gameRooms, hist, arg, out, view>>

\* socket.on('request-game-state'): 'game-state' to the asking socket when the
\* game exists, nothing otherwise.
GameStateEmits(box, d, s, gameId) ==
    LET game == FindGame(d, gameId, TRUE)
    IN IF game.found
       THEN Emit(box, {s}, [Message("game-state", gameId) EXCEPT !.game = game])
       ELSE box

RequestGameState(s, gameId) ==
    /\ sockets[s] = "connected"
    /\ inbox' = GameStateEmits(inbox, db, s, gameId)
    /\ UNCHANGED <<db, reqs, stunTimers, gameTimers, sockets, gameRooms, budget, hist, arg,
                   out, view>>

RECURSIVE LeaveRooms(_, _, _, _)
\* gameRooms.forEach of the disconnect handler over the games `gs`: the socket
\* id is deleted from every set that has it and 'player-left' goes to the
\* other sockets of that room.
LeaveRooms(box, rooms, s, gs) ==
    IF gs = {} THEN box
    ELSE LET g == CHOOSE h \in gs : \A k \in gs : h <= k
             sent == IF s \in rooms[g]
                     THEN Emit(box, rooms[g] \ {s}, Message("player-left", g))
                     ELSE box
         IN LeaveRooms(sent, rooms, s, gs \ {g})

\* socket.on('disconnect'): the socket id leaves every set of gameRooms and
\* the rooms are told 'player-left'; the tables and the timeouts are not
\* touched.  Nothing reaches the closed socket any more.
Disconnect(s) ==
    /\ sockets[s] = "connected"
    /\ sockets' = [sockets EXCEPT ![s] = "closed"]
    /\ gameRooms' = [g \in DOMAIN gameRooms |-> gameRooms[g] \ {s}]
    /\ inbox' = [LeaveRooms(inbox, gameRooms, s, DOMAIN gameRooms) EXCEPT ![s] = <<>>]
    /\ UNCHANGED <<db, reqs, stunTimers, gameTimers, budget, hist, arg, out, view>>

\* The tables after restart(session): status WAITING, every tile of the game
\* unpainted, every score of the game 0; players and positions as they were.
RestartWrite(d, gameId) ==
    [UpdateGameStatus(d, gameId, "WAITING") EXCEPT
        !.gameTile = [i \in DOMAIN d.gameTile |->
            IF d.gameTile[i].gameId = gameId
            THEN [d.gameTile[i] EXCEPT !.color = Null]
            ELSE d.gameTile[i]],
        !.player = [i \in DOMAIN d.player |->
            IF d.player[i].gameId = gameId
            THEN [d.player[i] EXCEPT !.score = 0]
            ELSE d.player[i]]]

\* A restart that leaves the pending time-limit timeout in place.
RestartKeepsTimer(gameId) ==
    /\ gameId \in DOMAIN db.game
    /\ db' = RestartWrite(db, gameId)
    /\ budget' = budget + 1
    /\ UNCHANGED <<reqs, stunTimers, gameTimers, sockets, gameRooms, hist, arg, out, inbox,
                   view>>

\* The clients' 'restartGame' event.  Its handler belongs to a socket server
\* that is not among the sources (page.tsx emits the event and handles
\* 'gameRestarted'), so the step is the restart the specification describes:
\* the tables are reset and the pending time-limit timeout is cancelled.
Restart(gameId) ==
    /\ gameId \in DOMAIN db.game
    /\ db' = RestartWrite(db, gameId)
    /\ gameTimers' = Filter(gameTimers, {i \in DOMAIN gameTimers : gameTimers[i] # gameId})
    /\ budget' = budget + 1
    /\ UNCHANGED <<reqs, stunTimers, sockets, gameRooms, hist, arg, out, inbox, view>>

\* The client of socket s handles the next event it was sent.  The handlers
\* of 'player-joined' and 'player-left' emit 'request-game-state', which the
\* server answers from the tables.
Receive(s) ==
    /\ sockets[s] = "connected"
    /\ inbox[s] # <<>>
    /\ LET m == Head(inbox[s])
           rest == [inbox EXCEPT ![s] = Tail(inbox[s])]
       IN /\ view' = [view EXCEPT ![s] = OnEvent(view[s], m)]
          /\ inbox' = IF m.event \in {"player-joined", "player-left"}
                      THEN GameStateEmits(rest, db, s, m.gameId)
                      ELSE rest
    /\ UNCHANGED <<db, reqs, stunTimers, gameTimers, sockets, gameRooms, budget, hist, arg, out>>

\* GameBoard's interval, which runs while the client's game is PLAYING:
\* requestGameState(selectedGame.id) every 2000 ms.
Poll(s, gameId) ==
    /\ view[s].found /\ view[s].status = "PLAYING"
    /\ inbox[s] = <<>>
    /\ RequestGameState(s, gameId)

\* GameBoard's handleMove after the move endpoint has answered ok:
\* makeMove(x, y), i.e. 'player-move' with the target of the request.
Relay(r, s) ==
    /\ reqs[r].kind = "move" /\ reqs[r].pc = "done" /\ reqs[r].response = "OK"
    /\ arg # <<>>
    /\ sockets[s] = "connected"
    /\ inbox' = PlayerMoveEmits(inbox, gameRooms, db, s, TheGame, arg.playerId, arg.x, arg.y)
    /\ arg' = <<>>
    /\ UNCHANGED <<db, reqs, stunTimers, gameTimers, sockets, gameRooms, budget, hist, out, view>>

----------------------------------------------------------------------------
(* The server from the creation of the game, one request at a time *)

\* The tables after POST /api/games.
Db0(maxPlayers, boardSize) ==
    [game |-> (TheGame :> NewGame(maxPlayers, TimeLimit, boardSize)),
     player |-> <<>>, gameTile |-> <<>>]

NoRequests == [r \in Slots |-> Idle]

Created(d) ==
    /\ db = d
    /\ reqs = NoRequests
    /\ stunTimers = <<>>
    /\ gameTimers = <<>>
    /\ sockets = [s \in Users |-> "new"]
    /\ gameRooms = <<>>
    /\ budget = 0
    /\ hist = d
    /\ arg = <<>>
    /\ out = <<>>
    /\ inbox = NoMail
    /\ view = NoViews

Init == Created(Db0(MaxPlayers, BoardSize))

\* The ids and coordinates a move request may carry: every player and one id
\* no player has; every tile and the ring of coordinates around the board.
PlayerIds == 1..(Len(db.player) + 1)
Coords == (0 - 1)..db.game[TheGame].boardSize

Next ==
    \/ /\ budget < MaxRequests
       /\ \/ \E u \in Users : Join(1, TheGame, u)
          \/ \E n \in 1..MaxCount : AddAi(1, TheGame, n)
          \/ Start(1, TheGame)
          \/ \E p \in PlayerIds, x \in Coords, y \in Coords :
                Move(1, TheGame, p, x, y) /\ UNCHANGED arg
          \/ AiMove(1, TheGame)
    \/ JoinStep(1, MaxSeeded)
    \/ AddAiStep(1)
    \/ StartStep(1)
    \/ MoveStep(1, MaxSeedChoice)
    \/ AiMoveStep(1)
    \/ StunTimeout
    \/ GameTimeout

Spec == Init /\ [][Next]_vars

----------------------------------------------------------------------------
(* The lobby with two handlers in flight *)

InitLobby == Created(Db0(MaxPlayers, LobbyBoardSize))

NextLobby ==
    \/ /\ budget < LobbyRequests
       /\ \E r \in Slots :
            \/ \E u \in Users : Join(r, TheGame, u)
            \/ \E n \in 1..MaxCount : AddAi(r, TheGame, n)
            \/ Start(r, TheGame)
    \/ \E r \in Slots : JoinStep(r, MaxSeeded)
    \/ \E r \in Slots : AddAiStep(r)
    \/ \E r \in Slots : StartStep(r)
    \/ GameTimeout

SpecLobby == InitLobby /\ [][NextLobby]_vars

----------------------------------------------------------------------------
(* The running game, its players' sockets and the stun timeouts *)

RECURSIVE RunJoin(_, _, _)
\* The join handler from its first await to its response, nothing in between.
RunJoin(d, req, rnd) ==
    IF req.pc = "done" THEN d
    ELSE LET y == JoinStepFn(d, req, rnd) IN RunJoin(y.db, y.req, rnd)

RECURSIVE RunAddAi(_, _, _)
RunAddAi(d, req, rnd) ==
    IF req.pc = "done" THEN d
    ELSE LET y == AddAiStepFn(d, req, rnd) IN RunAddAi(y.db, y.req, rnd)

RECURSIVE RunStart(_, _)
RunStart(d, req) ==
    IF req.pc = "done" THEN d
    ELSE LET y == StartStepFn(d, req) IN RunStart(y.db, y.req)

\* The tables after user 1 has joined at `human` with the tile draws `draw`
\* and one AI player has been added at `ai`.
Added(human, ai, draw) ==
    LET joined == RunJoin(Db0(MaxPlayers, BoardSize),
                          [Request("join", TheGame) EXCEPT !.userId = 1],
                          [pick |-> 1, x |-> human.x, y |-> human.y, draw |-> draw])
    IN RunAddAi(joined, [Request("add-ai", TheGame) EXCEPT !.count = 1],
                [x |-> ai.x, y |-> ai.y])

\* The same tables after the game has been started.
Started(human, ai, draw) == RunStart(Added(human, ai, draw), Request("start", TheGame))

Tiles == [x : 0..(BoardSize - 1), y : 0..(BoardSize - 1)]

\* The running games the behaviours start from: the human player next to the
\* first tile, the AI player on any tile, any of the explored tile draws.
StartedGames ==
    {Started(human, ai, draw) :
        human \in {t \in Tiles : t.x = 0 /\ t.y = 1},
        ai \in Tiles,
        draw \in TileDraws(BoardSize * BoardSize, MaxSeeded)}

\* The same games before the start request.
WaitingGames ==
    {Added(human, ai, draw) :
        human \in {t \in Tiles : t.x = 0 /\ t.y = 1},
        ai \in Tiles,
        draw \in TileDraws(BoardSize * BoardSize, MaxSeeded)}

InitPlay ==
    /\ db \in StartedGames
    /\ reqs = NoRequests
    /\ stunTimers = <<>>
    /\ gameTimers = <<TheGame>>
    /\ sockets = [s \in Users |-> "connected"]
    /\ gameRooms = (TheGame :> {1})
    /\ budget = 0
    /\ hist = <<>>
    /\ arg = <<>>
    /\ out = <<>>
    /\ inbox = NoMail
    /\ view = NoViews

\* The moves the clients submit: a player of the game and a tile of the board.
Players == 1..Len(db.player)

NextPlay ==
    \/ /\ budget < PlayRequests
       /\ \/ \E p \in Players, t \in Tiles : Move(1, TheGame, p, t.x, t.y) /\ UNCHANGED arg
          \/ AiMove(1, TheGame)
    \/ MoveStep(1, MaxSeedChoice)
    \/ AiMoveStep(1)
    \/ StunTimeout
    \/ \E s \in gameRooms[TheGame] : Disconnect(s)

SpecPlay == InitPlay /\ [][NextPlay]_vars

----------------------------------------------------------------------------
(* The status of the game: the start endpoint, the socket server's          *)
(* 'start-game' event and the time-limit timeout                            *)

InitStart ==
    /\ db = Db0(MaxPlayers, LobbyBoardSize)
    /\ reqs = NoRequests
    /\ stunTimers = <<>>
    /\ gameTimers = <<>>
    /\ sockets = [s \in Users |-> "connected"]
    /\ gameRooms = <<>>
    /\ budget = 0
    /\ hist = <<>>
    /\ arg = <<>>
    /\ out = <<>>
    /\ inbox = NoMail
    /\ view = NoViews

NextStart ==
    \/ /\ budget < StartRequests
       /\ \/ \E u \in Users : Join(1, TheGame, u)
          \/ \E n \in 1..MaxCount : AddAi(1, TheGame, n)
          \/ Start(1, TheGame)
          \/ \E s \in Users : Free(1) /\ SocketStartGame(s, TheGame)
    \/ JoinStep(1, MaxSeeded)
    \/ AddAiStep(1)
    \/ StartStep(1)
    \/ GameTimeout

SpecStart == InitStart /\ [][NextStart]_vars

----------------------------------------------------------------------------
(* Two users in a running game: collisions, stun timeouts, disconnections *)

\* The ids of the two players of a started game.
Seats == {1, 2}

\* The tables after user 1 has joined next to the first tile and user 2 has
\* joined at `other`; no tile has a power-up.
Seated(other) ==
    LET plain == [k \in 1..(BoardSize * BoardSize) |-> PlainDraw]
        first == RunJoin(Db0(MaxPlayers, BoardSize),
                         [Request("join", TheGame) EXCEPT !.userId = 1],
                         [pick |-> 1, x |-> 0, y |-> 1, draw |-> plain])
    IN RunJoin(first, [Request("join", TheGame) EXCEPT !.userId = 2],
               [pick |-> 1, x |-> other.x, y |-> other.y, draw |-> plain])

\* The same tables after the game has been started.
Duel(other) == RunStart(Seated(other), Request("start", TheGame))

InitStun ==
    /\ db \in {Duel(other) : other \in Tiles}
    /\ reqs = NoRequests
    /\ stunTimers = <<>>
    /\ gameTimers = <<TheGame>>
    /\ sockets = [s \in Users |-> "connected"]
    /\ gameRooms = (TheGame :> Users)
    /\ budget = 0
    /\ hist = <<>>
    /\ arg = <<>>
    /\ out = <<>>
    /\ inbox = NoMail
    /\ view = NoViews

NextStun ==
    \/ /\ budget < PlayRequests
       /\ \E p \in Players, t \in Tiles : Move(1, TheGame, p, t.x, t.y) /\ UNCHANGED arg
    \/ MoveStep(1, MaxSeedChoice)
    \/ StunTimeout
    \/ \E s \in gameRooms[TheGame] : Disconnect(s)

SpecStun == InitStun /\ [][NextStun]_vars

\* A timeout that is due fires: the event loop runs the callback.
SpecStunFair == SpecStun /\ WF_vars(StunTimeout)

----------------------------------------------------------------------------
(* Two move requests of one running game, handled at the same time *)

MoveRequest(playerId, x, y) ==
    [Request("move", TheGame) EXCEPT !.playerId = playerId, !.x = x, !.y = y]

RECURSIVE MoveRuns(_, _, _)
\* The tables the move handler can leave when nothing runs between its first
\* await and its response, one for each outcome of its random draws.
MoveRuns(d, req, choice) ==
    IF req.pc = "done" THEN {d}
    ELSE UNION {MoveRuns(y.db, y.req, choice) :
                   y \in {MoveStepFn(d, req, rnd) : rnd \in MoveRnd(d, req, choice)}}

\* The tables after the move `first` and then the move `second`.
Serial(d, first, second, choice) ==
    UNION {MoveRuns(d1, second, choice) : d1 \in MoveRuns(d, first, choice)}

InitRace ==
    /\ db \in StartedGames
    /\ \E p1 \in 1..Len(db.player), p2 \in 1..Len(db.player), t1 \in Tiles, t2 \in Tiles :
         reqs = (1 :> MoveRequest(p1, t1.x, t1.y)) @@ (2 :> MoveRequest(p2, t2.x, t2.y))
    /\ stunTimers = <<>>
    /\ gameTimers = <<TheGame>>
    /\ sockets = [s \in Users |-> "connected"]
    /\ gameRooms = (TheGame :> {1})
    /\ budget = 0
    /\ hist = [db |-> db, moves |-> reqs]
    /\ arg = <<>>
    /\ out = <<>>
    /\ inbox = NoMail
    /\ view = NoViews

NextRace == \E r \in Slots : MoveStep(r, MaxSeedChoice)

SpecRace == InitRace /\ [][NextRace]_vars

----------------------------------------------------------------------------
(* The moves of two users, each relayed over the socket once the endpoint   *)
(* has answered                                                             *)

InitRelay ==
    /\ db \in {Duel(other) : other \in Tiles}
    /\ reqs = NoRequests
    /\ stunTimers = <<>>
    /\ gameTimers = <<TheGame>>
    /\ sockets = [s \in Users |-> "connected"]
    /\ gameRooms = (TheGame :> Users)
    /\ budget = 0
    /\ hist = <<>>
    /\ arg = <<>>
    /\ out = <<>>
    /\ inbox = NoMail
    /\ view = NoViews

NextRelay ==
    \/ /\ budget < RelayRequests
       /\ \E p \in Players, t \in Tiles :
             /\ Move(1, TheGame, p, t.x, t.y)
             /\ arg' = [playerId |-> p, x |-> t.x, y |-> t.y]
    \/ MoveStep(1, MaxSeedChoice)
    \/ \E s \in Users : Relay(1, s) /\ db.player[arg.playerId].userId = s
    \/ StunTimeout
    \/ GameTimeout

SpecRelay == InitRelay /\ [][NextRelay]_vars

----------------------------------------------------------------------------
(* The clients of a game: the socket room, the events they are sent, the    *)
(* state they keep and the refresh they ask for while the game is PLAYING   *)

\* The user whose client is followed: it has sent 'join-game' for the game
\* both users joined and has handled the 'game-state' it was sent.
Watcher == 1

InitClients ==
    /\ db = Seated([x |-> 0, y |-> 0])
    /\ reqs = NoRequests
    /\ stunTimers = <<>>
    /\ gameTimers = <<>>
    /\ sockets = [s \in Users |-> "connected"]
    /\ gameRooms = (TheGame :> {Watcher})
    /\ budget = 0
    /\ hist = <<>>
    /\ arg = <<>>
    /\ out = <<>>
    /\ inbox = NoMail
    /\ view = [NoViews EXCEPT ![Watcher] = FindGame(db, TheGame, TRUE)]

NextClients ==
    \/ /\ budget < ClientRequests
       /\ \/ Start(1, TheGame)
          \/ SocketStartGame(Watcher, TheGame)
          \/ \E p \in Players, t \in Tiles :
                /\ Move(1, TheGame, p, t.x, t.y)
                /\ arg' = [playerId |-> p, x |-> t.x, y |-> t.y]
    \/ StartStep(1)
    \/ MoveStep(1, MaxSeedChoice)
    \/ \E s \in Users : Relay(1, s) /\ db.player[arg.playerId].userId = s
    \/ \E s \in Users : Receive(s)
    \/ \E s \in Users : Poll(s, TheGame)
    \/ StunTimeout
    \/ GameTimeout

SpecClients == InitClients /\ [][NextClients]_vars

----------------------------------------------------------------------------
(* Two games on one server: requests and socket events addressed to either *)

Games == {TheGame, OtherGame}

\* The tables with a running game of users 1 and 2 and a second game, still
\* WAITING, that user 1 has joined.
TwoGames ==
    LET plain == [k \in 1..(BoardSize * BoardSize) |-> PlainDraw]
        duel == Duel([x |-> 0, y |-> 0])
        both == [duel EXCEPT !.game = duel.game @@
                                (OtherGame :> NewGame(MaxPlayers, TimeLimit, BoardSize))]
    IN RunJoin(both, [Request("join", OtherGame) EXCEPT !.userId = 1],
               [pick |-> 1, x |-> 0, y |-> 1, draw |-> plain])

InitRooms ==
    /\ db = TwoGames
    /\ reqs = NoRequests
    /\ stunTimers = <<>>
    /\ gameTimers = <<TheGame>>
    /\ sockets = [s \in Users |-> "connected"]
    /\ gameRooms = (TheGame :> {1} @@ OtherGame :> {2})
    /\ budget = 0
    /\ hist = <<>>
    /\ arg = <<>>
    /\ out = <<>>
    /\ inbox = NoMail
    /\ view = NoViews

NextRooms ==
    \/ /\ budget < RoomRequests
       /\ \/ \E g \in Games, u \in Users : Join(1, g, u)
          \/ \E g \in Games : Start(1, g)
          \/ \E g \in Games, p \in Players, t \in Tiles :
                Move(1, g, p, t.x, t.y) /\ UNCHANGED arg
          \/ \E g \in Games, s \in Users : SocketJoinGame(2, s, g)
          \/ \E g \in Games, p \in Players, t \in Tiles :
                SocketPlayerMove(db.player[p].userId, g, p, t.x, t.y)
          \/ \E g \in Games, s \in Users : SocketStartGame(s, g)
    \/ JoinStep(1, 0)
    \/ StartStep(1)
    \/ MoveStep(1, MaxSeedChoice)
    \/ SocketJoinGameStep(2)
    \/ \E s \in Users : Disconnect(s)
    \/ StunTimeout
    \/ GameTimeout

SpecRooms == InitRooms /\ [][NextRooms]_vars

----------------------------------------------------------------------------
(* A running game of two users that is restarted and started again *)

InitRestart ==
    /\ db = Duel([x |-> 0, y |-> 0])
    /\ reqs = NoRequests
    /\ stunTimers = <<>>
    /\ gameTimers = <<TheGame>>
    /\ sockets = [s \in Users |-> "connected"]
    /\ gameRooms = (TheGame :> Users)
    /\ budget = 0
    /\ hist = <<>>
    /\ arg = <<>>
    /\ out = <<>>
    /\ inbox = NoMail
    /\ view = NoViews

NextRestart ==
    \/ /\ budget < RestartRequests
       /\ \/ \E p \in Players, t \in Tiles : Move(1, TheGame, p, t.x, t.y) /\ UNCHANGED arg
          \/ Start(1, TheGame)
          \/ Restart(TheGame)
    \/ MoveStep(1, MaxSeedChoice)
    \/ StartStep(1)
    \/ StunTimeout
    \/ GameTimeout

SpecRestart == InitRestart /\ [][NextRestart]_vars

----------------------------------------------------------------------------
(* The adjacency test of the endpoint, the socket server and the grid *)

InitAdjacent ==
    /\ db = Db0(MaxPlayers, BoardSize)
    /\ reqs = NoRequests
    /\ stunTimers = <<>>
    /\ gameTimers = <<>>
    /\ sockets = [s \in Users |-> "new"]
    /\ gameRooms = <<>>
    /\ budget = 0
    /\ hist = <<>>
    /\ arg \in [px : 0..MaxCoord, py : 0..MaxCoord,
                x : (0 - 1)..(MaxCoord + 1), y : (0 - 1)..(MaxCoord + 1)]
    /\ out = <<>>
    /\ inbox = NoMail
    /\ view = NoViews

\* The three tests are applied to the same player position and target.
TestAdjacent ==
    /\ out = <<>>
    /\ out' = [move |-> isValidMove(arg.px, arg.py, arg.x, arg.y),
               socket |-> socketIsValidMove(arg.px, arg.py, arg.x, arg.y),
               grid |-> handleTileClick(arg.px, arg.py, arg.x, arg.y)]
    /\ UNCHANGED <<db, reqs, stunTimers, gameTimers, sockets, gameRooms, budget, hist, arg,
                   inbox, view>>

SpecAdjacent == InitAdjacent /\ [][TestAdjacent]_vars

----------------------------------------------------------------------------
(* The legality checks of the move endpoint, with every kind of bad input *)

InitLegality ==
    /\ db \in StartedGames \cup WaitingGames
    /\ reqs = NoRequests
    /\ stunTimers = <<>>
    /\ gameTimers = IF db.game[TheGame].status = "PLAYING" THEN <<TheGame>> ELSE <<>>
    /\ sockets = [s \in Users |-> "connected"]
    /\ gameRooms = (TheGame :> {1})
    /\ budget = 0
    /\ hist = <<>>
    /\ arg = <<>>
    /\ out = <<>>
    /\ inbox = NoMail
    /\ view = NoViews

\* `arg` keeps the last move request, which the handler forgets.
NextLegality ==
    \/ /\ budget < LegalityRequests
       /\ \E p \in PlayerIds, x \in Coords, y \in Coords :
            /\ Move(1, TheGame, p, x, y)
            /\ arg' = [playerId |-> p, x |-> x, y |-> y]
    \/ MoveStep(1, MaxSeedChoice)
    \/ StunTimeout
    \/ GameTimeout

SpecLegality == InitLegality /\ [][NextLegality]_vars

----------------------------------------------------------------------------
(* Properties *)

PlayerCount(d) == Len(PlayersOf(d, TheGame))

\* C1: after any interleaving of join and add-AI requests the game never has
\* more than maxPlayers players, and a join that finds the game (accepting
\* players) with maxPlayers players is answered 'Game is full' and creates no
\* player.
C1_NeverMoreThanMaxPlayers ==
    [][/\ PlayerCount(db') <= db'.game[TheGame].maxPlayers
       /\ \A r \in Slots, u \in Users :
            (/\ Join(r, TheGame, u)
             /\ db.game[TheGame].status = "WAITING"
             /\ PlayerCount(db) >= db.game[TheGame].maxPlayers)
            => (reqs'[r].response = "Game is full" /\ db' = db)]_vars

\* What C2 compares: every player's position, status and score, and every
\* tile's colour.
Shown(d) ==
    [players |-> [i \in DOMAIN d.player |->
                     <<d.player[i].positionX, d.player[i].positionY,
                       d.player[i].status, d.player[i].score>>],
     colors |-> [i \in DOMAIN d.gameTile |-> d.gameTile[i].color]]

\* C2: moves of one game are serialized: when two move requests are handled
\* at the same time, the positions, statuses, scores and tile colours they
\* leave are those of the two moves executed one after the other, in one of
\* the two orders.
C2_MovesAreSerialized ==
    (\A r \in Slots : reqs[r].pc = "done")
    => Shown(db) \in
         {Shown(e) : e \in Serial(hist.db, hist.moves[1], hist.moves[2], MaxSeedChoice)
                            \cup Serial(hist.db, hist.moves[2], hist.moves[1], MaxSeedChoice)}

\* The players of the game and where the tables say they are.
InGame(d, p) == p \in DOMAIN d.player /\ d.player[p].gameId = TheGame
At(d, p, x, y) == d.player[p].positionX = x /\ d.player[p].positionY = y
OnBoard(d, x, y) ==
    /\ 0 <= x /\ x < d.game[TheGame].boardSize
    /\ 0 <= y /\ y < d.game[TheGame].boardSize
Chebyshev(d, p, x, y) ==
    Max(Abs(x - d.player[p].positionX), Abs(y - d.player[p].positionY))

\* A move that fails one of the four legality checks.
Illegal(d, p, x, y) ==
    \/ d.game[TheGame].status # "PLAYING"
    \/ ~InGame(d, p)
    \/ d.player[p].status # "ACTIVE"
    \/ ~OnBoard(d, x, y)
    \/ Chebyshev(d, p, x, y) # 1

\* A move request arrives at slot 1 (and `arg` is the request).
MoveArrives == budget' = budget + 1 /\ reqs'[1].kind = "move" /\ arg' # <<>>

\* C3: a move that fails a legality check is answered with an error and
\* changes nothing in the tables and sets no timeout; while the game is
\* WAITING the error is the phase error.
C3_RejectedMoveChangesNothing ==
    [][(MoveArrives /\ Illegal(db, arg'.playerId, arg'.x, arg'.y))
       => /\ reqs'[1].pc = "done"
          /\ reqs'[1].response \notin {"OK", "none"}
          /\ db' = db
          /\ stunTimers' = stunTimers
          /\ (db.game[TheGame].status = "WAITING"
              => reqs'[1].response = "Game is not in progress")]_vars

\* A move that only the phase forbids has been rejected.
C3_Witness ==
    /\ reqs[1].kind = "move"
    /\ reqs[1].response = "Game is not in progress"
    /\ db.game[TheGame].status = "WAITING"
    /\ InGame(db, arg.playerId)
    /\ OnBoard(db, arg.x, arg.y)
    /\ Chebyshev(db, arg.playerId, arg.x, arg.y) = 1

\* The errors of the four checks in the order the claim gives them:
\* status, player, bounds, adjacency.
ClaimedErrors(d, p, x, y) ==
    IF d.game[TheGame].status # "PLAYING" THEN {"Game is not in progress"}
    ELSE IF ~InGame(d, p) \/ d.player[p].status # "ACTIVE"
         THEN {"Player not found", "Player cannot move right now"}
    ELSE IF ~OnBoard(d, x, y) THEN {"Move out of bounds"}
    ELSE IF Chebyshev(d, p, x, y) # 1 THEN {"Invalid move"}
    ELSE {}

\* C4 as claimed: the error of a rejected move is that of the first failing
\* check in the order status, player, bounds, adjacency.
C4_BoundsBeforeAdjacency ==
    [][(MoveArrives /\ Illegal(db, arg'.playerId, arg'.x, arg'.y))
       => reqs'[1].response \in ClaimedErrors(db, arg'.playerId, arg'.x, arg'.y)]_vars

\* The error of the first failing check in the order status, player exists,
\* player ACTIVE, adjacency, bounds.
FirstFailing(d, p, x, y) ==
    IF d.game[TheGame].status # "PLAYING" THEN "Game is not in progress"
    ELSE IF ~InGame(d, p) THEN "Player not found"
    ELSE IF d.player[p].status # "ACTIVE" THEN "Player cannot move right now"
    ELSE IF Chebyshev(d, p, x, y) # 1 THEN "Invalid move"
    ELSE IF ~OnBoard(d, x, y) THEN "Move out of bounds"
    ELSE "OK"

\* C4, amended: the checks are evaluated in the order status, player exists,
\* player ACTIVE, adjacency, bounds, and the error is that of the first one
\* that fails; a target outside the board and not adjacent is answered
\* 'Invalid move'.
C4_AdjacencyBeforeBounds ==
    [][(MoveArrives /\ Illegal(db, arg'.playerId, arg'.x, arg'.y))
       => reqs'[1].response = FirstFailing(db, arg'.playerId, arg'.x, arg'.y)]_vars

\* A target outside the board and not adjacent has been answered.
C4_Witness ==
    /\ reqs[1].kind = "move"
    /\ reqs[1].response = "Invalid move"
    /\ ~OnBoard(db, arg.x, arg.y)
    /\ Chebyshev(db, arg.playerId, arg.x, arg.y) > 1

\* C5: each of the three adjacency tests accepts a target exactly when its
\* Chebyshev distance from the player's position is 1.
C5_AdjacentIffChebyshevOne ==
    out # <<>>
    => LET one == Max(Abs(arg.x - arg.px), Abs(arg.y - arg.py)) = 1
       IN out.move = one /\ out.socket = one /\ out.grid = one

C5_Witness ==
    /\ out # <<>>
    /\ out.move /\ out.socket /\ out.grid
    /\ Abs(arg.x - arg.px) = 1 /\ Abs(arg.y - arg.py) = 1

\* C6: after the position update of an accepted move, and up to its response,
\* the mover's stored position is the submitted target, whether or not another
\* player is on it.
C6_PositionIsTarget ==
    [][(/\ reqs[1].kind = "move"
        /\ reqs[1].pc \in {"position", "spray", "tile", "score", "reread", "reseed"}
        /\ reqs'[1] # reqs[1])
       => At(db', reqs[1].playerId, reqs[1].x, reqs[1].y)]_vars

\* A move onto an occupied tile has been applied: its handler has stunned the
\* occupant and stands on the occupant's tile.
C6_Witness ==
    /\ reqs[1].kind = "move"
    /\ reqs[1].pc \in {"tile", "score", "reread"}
    /\ reqs[1].stunned # Null
    /\ At(db, reqs[1].playerId, reqs[1].x, reqs[1].y)
    /\ At(db, reqs[1].stunned, reqs[1].x, reqs[1].y)

\* C7: every player stands on the board.
C7_PositionsOnBoard ==
    \A i \in DOMAIN db.player :
        OnBoard(db, db.player[i].positionX, db.player[i].positionY)

\* Players have joined and been added, and one has moved and scored.
C7_Witness ==
    /\ reqs[1].kind \in {"move", "ai-move"}
    /\ reqs[1].response = "OK"
    /\ \E i \in DOMAIN db.player : db.player[i].score > 0
    /\ \E i \in DOMAIN db.player : db.player[i].isAI

\* C8: when the move endpoint or the AI endpoint writes a mover's position,
\* every other player on the target tile is STUNNED (or has been stunned by
\* this move and released by its timeout), and the mover is on the target.
C8_OccupantIsStunned ==
    [][(/\ reqs[1].kind \in {"move", "ai-move"}
        /\ reqs[1].pc = "position"
        /\ reqs'[1] # reqs[1])
       => /\ At(db', reqs[1].playerId, reqs[1].x, reqs[1].y)
          /\ \A i \in DOMAIN db.player :
                (/\ db.player[i].id # reqs[1].playerId
                 /\ At(db, db.player[i].id, reqs[1].x, reqs[1].y)
                 /\ reqs[1].stunned # db.player[i].id)
                => db'.player[i].status = "STUNNED"]_vars

\* C9: under fairness of the timeout a STUNNED player becomes ACTIVE again, and
\* only the timeout of a stun makes a STUNNED player ACTIVE.
C9_StunnedLeadsToActive ==
    /\ \A p \in Seats : (db.player[p].status = "STUNNED") ~> (db.player[p].status = "ACTIVE")
    /\ [][\A p \in Seats :
            (db.player[p].status = "STUNNED" /\ db'.player[p].status = "ACTIVE")
            => /\ stunTimers # <<>>
               /\ Head(stunTimers) = p
               /\ stunTimers' = Tail(stunTimers)]_vars

\* The player a move has stunned is ACTIVE again before the move is answered.
C9_Witness ==
    /\ reqs[1].kind = "move"
    /\ reqs[1].stunned # Null
    /\ db.player[reqs[1].stunned].status = "ACTIVE"
    /\ stunTimers = <<>>

\* The user of the player whose stun timeout is next has disconnected.
StunnedPlayerLeft ==
    /\ stunTimers # <<>>
    /\ db.player[Head(stunTimers)].userId \in DOMAIN sockets
    /\ sockets[db.player[Head(stunTimers)].userId] = "closed"

\* C10: the stun timeout of a player who has disconnected writes nothing.
C10_NoWriteAfterLeaving ==
    [][(StunnedPlayerLeft /\ stunTimers' = Tail(stunTimers)) => db' = db]_vars

\* C11: while a player is STUNNED its position and score do not change, in
\* every interleaving of the move requests' steps.
C11_StunnedPlayerStays ==
    [][\A i \in DOMAIN db.player :
          (db.player[i].status = "STUNNED" /\ db'.player[i].status = "STUNNED")
          => /\ db'.player[i].positionX = db.player[i].positionX
             /\ db'.player[i].positionY = db.player[i].positionY
             /\ db'.player[i].score = db.player[i].score]_vars

\* C15: every player's score is at least 0 and never decreases from one state
\* to the next, also when two moves are handled at the same time.
C15_ScoreNeverDecreases ==
    [][\A i \in DOMAIN db.player :
          db.player[i].score >= 0 /\ db'.player[i].score >= db.player[i].score]_vars

\* What C20 says is frozen outside PLAYING: every tile's colour and power-up
\* and every player's position and score.
Frozen(d) ==
    [tiles |-> [i \in DOMAIN d.gameTile |->
                   <<d.gameTile[i].color, d.gameTile[i].hasPowerUp, d.gameTile[i].powerUpType>>],
     players |-> [i \in DOMAIN d.player |->
                     <<d.player[i].positionX, d.player[i].positionY, d.player[i].score>>]]

\* C20: no tile colour, tile power-up, player position or player score changes
\* in a state where the game is WAITING or FINISHED, in every interleaving of
\* the move handler's steps and the time-limit timeout.
C20_FrozenUnlessPlaying ==
    [][db.game[TheGame].status # "PLAYING" => Frozen(db') = Frozen(db)]_vars

\* The score update of a move of one of the `kinds` (move endpoint, AI
\* endpoint) whose handler found the target tile; Mover and Target are the
\* player and the tile as the handler read them before the move.
ScoreStep(kinds) ==
    /\ reqs[1].kind \in kinds
    /\ reqs[1].pc = "score"
    /\ reqs'[1] # reqs[1]
    /\ FindTile(reqs[1].game, reqs[1].x, reqs[1].y) # 0
Mover == reqs[1].game.players[FindPlayer(reqs[1].game, reqs[1].playerId)]
Target == reqs[1].game.tiles[FindTile(reqs[1].game, reqs[1].x, reqs[1].y)]

\* C12: a move accepted by the move endpoint onto a tile without power-up gives exactly one point
\* when the tile was unpainted or bore another colour and none when it bore
\* the mover's colour, and the tile bears the mover's colour afterwards.
C12_PaintPoint ==
    [][(ScoreStep({"move"}) /\ ~Target.hasPowerUp)
       => /\ db'.player[Mover.id].score =
                Mover.score + (IF Target.color = Mover.color THEN 0 ELSE 1)
          /\ db'.gameTile[Target.id].color = Mover.color]_vars

\* A player is about to be scored for landing on a tile of its own colour.
C12_Witness ==
    /\ reqs[1].kind = "move"
    /\ reqs[1].pc = "score"
    /\ FindTile(reqs[1].game, reqs[1].x, reqs[1].y) # 0
    /\ ~Target.hasPowerUp
    /\ Target.color = Mover.color
    /\ reqs[1].newScore = Mover.score
    /\ Mover.score > 0

\* C13: a move accepted by the move endpoint onto a tile whose power-up flag is set leaves the
\* tile without flag and kind, gives 2 points on top of the paint point for
\* SPEED and JUMP, and the move endpoint's response reports the kind.
C13_PowerUpConsumed ==
    [][/\ (ScoreStep({"move"}) /\ Target.hasPowerUp)
          => /\ ~db'.gameTile[Target.id].hasPowerUp
             /\ db'.gameTile[Target.id].powerUpType = NoType
             /\ (Target.powerUpType \in {"SPEED", "JUMP"}
                 => db'.player[Mover.id].score =
                       Mover.score + 2 + (IF Target.color = Mover.color THEN 0 ELSE 1))
       /\ (/\ reqs[1].kind = "move" /\ reqs[1].pc = "position" /\ reqs'[1] # reqs[1]
           /\ Target.hasPowerUp)
          => reqs'[1].powerUpCollected = Target.powerUpType
       /\ (/\ reqs[1].kind = "move" /\ reqs'[1] # reqs[1]
           /\ reqs[1].pc \in {"spray", "tile", "score", "reread", "reseed"})
          => reqs'[1].powerUpCollected = reqs[1].powerUpCollected]_vars

\* A move that collected a SPEED or JUMP power-up has been answered.
C13_Witness ==
    /\ reqs[1].kind = "move"
    /\ reqs[1].response = "OK"
    /\ reqs[1].powerUpCollected \in {"SPEED", "JUMP"}
    /\ \E i \in DOMAIN db.player : db.player[i].score >= 3

\* The coordinates of the board at Chebyshev distance 1 from (x, y).
NeighbourCoords(x, y) ==
    {t \in [x : 0..(db.game[TheGame].boardSize - 1), y : 0..(db.game[TheGame].boardSize - 1)] :
        Max(Abs(t.x - x), Abs(t.y - y)) = 1}

\* C14: after a move that triggers SPRAY at (x, y), every tile at Chebyshev
\* distance 1 from (x, y) bears the mover's colour, and the mover has gained
\* the number of those neighbour coordinates plus the paint point of the
\* target tile.
C14_SprayPaintsNeighbours ==
    [][(/\ ScoreStep({"move", "ai-move"})
        /\ Target.hasPowerUp
        /\ Target.powerUpType = "SPRAY")
       => /\ \A i \in DOMAIN db'.gameTile :
                [x |-> db'.gameTile[i].x, y |-> db'.gameTile[i].y]
                    \in NeighbourCoords(reqs[1].x, reqs[1].y)
                => db'.gameTile[i].color = Mover.color
          /\ db'.player[Mover.id].score =
                Mover.score + Cardinality(NeighbourCoords(reqs[1].x, reqs[1].y))
                            + (IF Target.color = Mover.color THEN 0 ELSE 1)]_vars

Status(d) == d.game[TheGame].status

\* C16: the status becomes PLAYING only in a state where the game has at
\* least 2 players, through the start endpoint and through the socket event,
\* and a start request that finds fewer than 2 players is rejected and
\* changes nothing.
C16_StartNeedsTwoPlayers ==
    [][/\ (Status(db) # "PLAYING" /\ Status(db') = "PLAYING") => PlayerCount(db) >= 2
       /\ (Start(1, TheGame) /\ Status(db) = "WAITING" /\ PlayerCount(db) < 2)
          => /\ reqs'[1].response = "Need at least 2 players to start the game"
             /\ db' = db]_vars

\* C17: the status only goes from WAITING to PLAYING and from PLAYING to
\* FINISHED, and a start request that finds the game PLAYING or FINISHED is
\* rejected with its error and changes nothing.
C17_StatusOnlyForward ==
    [][/\ <<Status(db), Status(db')>> \in
            {<<"WAITING", "WAITING">>, <<"WAITING", "PLAYING">>, <<"PLAYING", "PLAYING">>,
             <<"PLAYING", "FINISHED">>, <<"FINISHED", "FINISHED">>}
       /\ (Start(1, TheGame) /\ Status(db) # "WAITING")
          => /\ reqs'[1].response = "Game is already started or finished"
             /\ db' = db]_vars

\* C18: every step that makes the game PLAYING sets a time-limit timeout for
\* the game, so the game cannot stay PLAYING with no timeout pending.
C18_PlayingHasTimeout ==
    [][(Status(db) # "PLAYING" /\ Status(db') = "PLAYING")
       => gameTimers' = Append(gameTimers, TheGame)]_vars

\* C19: at most one time-limit timeout is pending for the game, and a timeout
\* that fires when the game is not PLAYING leaves the status as it is.
C19_OneTimeout ==
    [][/\ Len(gameTimers') <= 1
       /\ (gameTimers # <<>> /\ gameTimers' = Tail(gameTimers) /\ Status(db) # "PLAYING")
          => Status(db') = Status(db)]_vars

\* The coordinates of the board of the game.
BoardCoords(d) ==
    [x : 0..(d.game[TheGame].boardSize - 1), y : 0..(d.game[TheGame].boardSize - 1)]

\* The tile rows of the game at one coordinate.
RowsAt(d, c) ==
    {i \in DOMAIN d.gameTile :
        /\ d.gameTile[i].gameId = TheGame
        /\ d.gameTile[i].x = c.x
        /\ d.gameTile[i].y = c.y}

\* C21: once the join and add-AI requests have been answered, a game with at
\* least one player has exactly one tile for every coordinate of its board:
\* boardSize^2 tiles with pairwise distinct coordinates.
C21_OneTilePerCoordinate ==
    (Free(1) /\ PlayerCount(db) >= 1)
    => /\ Len(TilesOf(db, TheGame)) = Cardinality(BoardCoords(db))
       /\ \A c \in BoardCoords(db) : Cardinality(RowsAt(db, c)) = 1

\* C22: no two players of the game have the same colour, whatever the
\* interleaving of the join and add-AI handlers, while the game has at most
\* as many players as the palette has colours.
C22_ColoursDistinct ==
    PlayerCount(db) <= NumColors
    => \A i, j \in DOMAIN db.player :
          (InGame(db, i) /\ InGame(db, j) /\ i # j)
          => db.player[i].color # db.player[j].color

\* C23: no user has two players in the game, whatever the interleaving of the
\* join handlers.
C23_OnePlayerPerUser ==
    \A i, j \in DOMAIN db.player :
        (InGame(db, i) /\ InGame(db, j) /\ i # j /\ ~db.player[i].isAI)
        => db.player[i].userId # db.player[j].userId

\* The user of player p has disconnected.
HasLeft(socks, d, p) ==
    /\ d.player[p].userId \in DOMAIN socks
    /\ socks[d.player[p].userId] = "closed"

\* C26: once a client has disconnected its player is no longer in the game,
\* and no move request for that player is taken up: it is answered with an
\* error and changes nothing.
C26_NoMoveAfterDisconnect ==
    [][/\ \A p \in DOMAIN db'.player : InGame(db', p) => ~HasLeft(sockets', db', p)
       /\ (/\ budget' = budget + 1
           /\ reqs'[1].kind = "move"
           /\ reqs'[1].pc # "done")
          => ~HasLeft(sockets, db, reqs'[1].playerId)]_vars

\* The start endpoint answers a request with success.
StartSucceeds ==
    /\ reqs[1].kind = "start"
    /\ reqs[1].pc = "update"
    /\ reqs'[1].pc = "done"
    /\ reqs'[1].response = "OK"

\* Some player of the game stands at the coordinates of tile i.
Occupied(d, i) ==
    \E p \in DOMAIN d.player :
        /\ InGame(d, p)
        /\ d.player[p].positionX = d.gameTile[i].x
        /\ d.player[p].positionY = d.gameTile[i].y

\* C29: when the start endpoint has started the game, every player stands on
\* a tile of its own colour and every tile no player stands on is unpainted.
C29_StartPaintsStartingTiles ==
    [][StartSucceeds
       => /\ \A p \in DOMAIN db'.player :
                InGame(db', p)
                => \E i \in DOMAIN db'.gameTile :
                      /\ db'.gameTile[i].gameId = TheGame
                      /\ db'.gameTile[i].x = db'.player[p].positionX
                      /\ db'.gameTile[i].y = db'.player[p].positionY
                      /\ db'.gameTile[i].color = db'.player[p].color
          /\ \A i \in DOMAIN db'.gameTile :
                (db'.gameTile[i].gameId = TheGame /\ ~Occupied(db', i))
                => db'.gameTile[i].color = Null]_vars

\* The client relays the move the endpoint has just accepted.
RelayStep == arg # <<>> /\ arg' = <<>>

\* The 'player-moved' event for the relayed move.
Moved(m) ==
    /\ m.event = "player-moved"
    /\ m.playerId = arg.playerId
    /\ m.x = arg.x
    /\ m.y = arg.y

\* C25: the relay of a move the endpoint has accepted puts a 'player-moved'
\* event with that player and target in front of every socket of the game's
\* room, and the relaying socket is sent no 'error'.
C25_RelayIsBroadcast ==
    [][RelayStep
       => \A s \in Room(gameRooms, TheGame) :
             /\ Len(inbox'[s]) = Len(inbox[s]) + 1
             /\ Moved(inbox'[s][Len(inbox'[s])])]_vars

\* The socket of user s goes away in this step.
Departs(s) == sockets[s] = "connected" /\ sockets'[s] = "closed"

\* The players of the game whose user has not disconnected.
Remaining(socks, d) == {p \in DOMAIN d.player : InGame(d, p) /\ ~HasLeft(socks, d, p)}

\* The events the step has put in front of socket s.
NewMail(s) == {inbox'[s][i] : i \in (Len(inbox[s]) + 1)..Len(inbox'[s])}

\* C27: a departure that leaves fewer than 2 players in a PLAYING game puts
\* the game back to WAITING and sends the peers that remain a stopped notice,
\* and every departure sends the remaining peers of the room 'player-left'.
C27_DepartureStopsGame ==
    [][\A s \in Users :
          Departs(s)
          => /\ (Status(db) = "PLAYING" /\ Cardinality(Remaining(sockets', db')) < 2)
                => /\ Status(db') = "WAITING"
                   /\ \A t \in Room(gameRooms, TheGame) \ {s} :
                         \E m \in NewMail(t) : m.event = "game-stopped"
             /\ \A t \in Room(gameRooms, TheGame) \ {s} :
                   \E m \in NewMail(t) : m.event = "player-left"]_vars

\* The clients that are subscribed to the game.
Subscribed == Connected(sockets, Room(gameRooms, TheGame))

\* Nothing is left to happen unless a new request or event is sent: no
\* handler is in flight, no timeout is pending, no accepted move waits for
\* its relay, every event has been handled and no client's refresh is due.
Settled ==
    /\ \A r \in Slots : Free(r)
    /\ stunTimers = <<>>
    /\ gameTimers = <<>>
    /\ arg = <<>>
    /\ \A s \in Subscribed :
          /\ inbox[s] = <<>>
          /\ ~(view[s].found /\ view[s].status = "PLAYING")

\* C24: when the accepted moves, the starts and the timeouts are over, every
\* subscribed client holds the players (positions, scores, statuses) and the
\* game status that the server has stored.
C24_ClientsConverge ==
    Settled
    => \A s \in Subscribed :
          /\ view[s].status = Status(db)
          /\ view[s].players = PlayersOf(db, TheGame)

\* The rows of game g: its players, its tiles and its status.
GameRows(d, g) == <<PlayersOf(d, g), TilesOf(d, g), d.game[g].status>>

\* The step is one of the handler of a request that is addressed to game g.
HandlerStepFor(g) == reqs[1].pc \notin {"idle", "done"} /\ reqs[1].gameId = g

\* The step is the 'start-game' event for game g: the status is written and
\* nothing else.
SocketStartFor(g) ==
    /\ budget' = budget + 1
    /\ reqs' = reqs
    /\ db' = UpdateGameStatus(db, g, "PLAYING")

\* The step is a timeout set by a request that was addressed to game g.
TimeoutFor(g) ==
    \/ gameTimers # <<>> /\ gameTimers' = Tail(gameTimers) /\ Head(gameTimers) = g
    \/ /\ stunTimers # <<>> /\ stunTimers' = Tail(stunTimers)
       /\ db.player[Head(stunTimers)].gameId = g

\* Socket s is in the room of game g.
Joined(rooms, s, g) == g \in DOMAIN rooms /\ s \in rooms[g]

\* C28: the games are independent.  A 'player-joined', 'player-moved',
\* 'game-started' or 'player-left' event about game g is put in front of
\* sockets of the room of g only, and the players, tiles and status of a game
\* change only in steps of requests, events and timeouts of that game.
C28_GamesIndependent ==
    [][/\ \A s \in Users : \A m \in NewMail(s) :
             m.event \in {"player-joined", "player-moved", "game-started", "player-left"}
             => Joined(gameRooms', s, m.gameId)
       /\ \A g \in DOMAIN db.game :
             GameRows(db', g) # GameRows(db, g)
             => HandlerStepFor(g) \/ SocketStartFor(g) \/ TimeoutFor(g)]_vars

\* 'player-moved' about one game has been sent while a socket was in the
\* room of the other game only, and the other game has been started.
C28_Witness ==
    \E s, t \in Users :
        /\ \E i \in DOMAIN inbox[s] : inbox[s][i].event = "player-moved"
                                      /\ inbox[s][i].gameId = TheGame
        /\ Joined(gameRooms, t, OtherGame) /\ ~Joined(gameRooms, t, TheGame)
        /\ db.game[OtherGame].status = "PLAYING"

\* The players of the game with what a restart must leave alone.
Roster(d) ==
    {<<d.player[p].id, d.player[p].userId, d.player[p].color,
       d.player[p].positionX, d.player[p].positionY>> :
        p \in {q \in DOMAIN d.player : InGame(d, q)}}

C39_AiIdentitiesDistinct ==
    \A i, j \in DOMAIN db.player :
        (InGame(db, i) /\ InGame(db, j) /\ i # j /\ db.player[i].isAI /\ db.player[j].isAI)
        => db.player[i].userId # db.player[j].userId

\* C36: a player is created only in a state in which the game is WAITING, in
\* every interleaving of the join, add-AI and start handlers.
C36_PlayersOnlyWhileWaiting ==
    [][Len(db'.player) > Len(db.player) => Status(db) = "WAITING"]_vars

\* C37: on every tile the power-up flag and the power-up kind agree:
\* hasPowerUp holds exactly when powerUpType is SPEED, JUMP or SPRAY.
C37_FlagAgreesWithKind ==
    \A i \in DOMAIN db.gameTile :
        db.gameTile[i].hasPowerUp <=> (db.gameTile[i].powerUpType \in Range(PowerUpTypes))

\* The AI endpoint writes the position of an AI player.
AiPositionStep ==
    /\ reqs[1].kind = "ai-move"
    /\ reqs[1].pc = "position"
    /\ reqs'[1] # reqs[1]

\* C35: every move the AI endpoint applies is legal when it is applied: the
\* player is an ACTIVE AI player of a PLAYING game, and the target lies on
\* the board at Chebyshev distance 1 from the player's position (so that on
\* a board of size 1 no move is applied).
C35_AiMovesAreLegal ==
    [][AiPositionStep
       => /\ InGame(db, reqs[1].playerId)
          /\ db.player[reqs[1].playerId].isAI
          /\ db.player[reqs[1].playerId].status = "ACTIVE"
          /\ Status(db) = "PLAYING"
          /\ OnBoard(db, reqs[1].x, reqs[1].y)
          /\ Chebyshev(db, reqs[1].playerId, reqs[1].x, reqs[1].y) = 1]_vars

\* C38: a player for whom a stun timeout is still pending is STUNNED: the
\* timeout of an earlier hit does not make the player ACTIVE while the
\* timeout of a later hit is running.
C38_StunnedUntilLatestTimeout ==
    \A i \in DOMAIN stunTimers : db.player[stunTimers[i]].status = "STUNNED"

\* The step in which the move of slot r writes the power-up it drew after
\* rereading the game.
ReseedStep(r) ==
    reqs[r].kind = "move" /\ reqs[r].pc = "reseed" /\ reqs'[r].pc = "done"

\* The tiles that have a power-up after the step and had none before it.
GainedPowerUp ==
    {i \in DOMAIN db.gameTile : db'.gameTile[i].hasPowerUp /\ ~db.gameTile[i].hasPowerUp}

\* C32: the power-up written after a move goes to at most one tile, and the
\* tile that receives it is unpainted and without a power-up when it is
\* written, also while another move of the same game is being handled.
C32_ReseedsOnlyEmptyTiles ==
    [][\A r \in Slots :
          ReseedStep(r)
          => /\ Cardinality(GainedPowerUp) <= 1
             /\ db.gameTile[reqs[r].seedTile].color = Null
             /\ ~db.gameTile[reqs[r].seedTile].hasPowerUp]_vars

----------------------------------------------------------------------------
(* 'player-move' events sent straight to the socket server, with any        *)
(* coordinates, while the endpoint moves the players                        *)

BroadcastRequests == 3

InitBroadcast ==
    /\ db \in {Duel(other) : other \in Tiles}
    /\ reqs = NoRequests
    /\ stunTimers = <<>>
    /\ gameTimers = <<TheGame>>
    /\ sockets = [s \in Users |-> "connected"]
    /\ gameRooms = (TheGame :> Users)
    /\ budget = 0
    /\ hist = <<>>
    /\ arg = <<>>
    /\ out = <<>>
    /\ inbox = NoMail
    /\ view = NoViews

NextBroadcast ==
    \/ /\ budget < BroadcastRequests
       /\ \/ \E p \in Players, t \in Tiles : Move(1, TheGame, p, t.x, t.y) /\ UNCHANGED arg
          \/ \E s \in Users, p \in Players, x \in Coords, y \in Coords :
                SocketPlayerMove(s, TheGame, p, x, y)
    \/ MoveStep(1, MaxSeedChoice)
    \/ StunTimeout
    \/ GameTimeout

SpecBroadcast == InitBroadcast /\ [][NextBroadcast]_vars

\* The 'player-moved' events the step has put in front of some socket.
NewMoved ==
    {m \in UNION {NewMail(s) : s \in Users} : m.event = "player-moved"}

\* C33: every 'player-moved' event the socket server broadcasts has a target
\* within the board and next to the player's stored position, and is sent
\* only while the game is PLAYING and the player is ACTIVE.
C33_BroadcastMovesAreLegal ==
    [][\A m \in NewMoved :
          /\ Status(db) = "PLAYING"
          /\ InGame(db, m.playerId)
          /\ db.player[m.playerId].status = "ACTIVE"
          /\ Chebyshev(db, m.playerId, m.x, m.y) = 1
          /\ OnBoard(db, m.x, m.y)]_vars

\* The 'player-left' events about game g that the step has put in front of
\* socket t.
LeftCount(t, g) ==
    Cardinality({i \in (Len(inbox[t]) + 1)..Len(inbox'[t]) :
                    inbox'[t][i].event = "player-left" /\ inbox'[t][i].gameId = g})

\* C34: every socket id kept in gameRooms is the id of a connected socket;
\* a disconnect takes the id out of every set and sends each connected peer
\* one 'player-left' for each game the socket had joined and none for the
\* games it had not joined.
C34_RoomsTrackConnections ==
    [][/\ \A g \in DOMAIN gameRooms' : \A s \in gameRooms'[g] : sockets'[s] = "connected"
       /\ \A s \in Users :
             Departs(s)
             => /\ \A g \in DOMAIN gameRooms' : s \notin gameRooms'[g]
                /\ \A g \in DOMAIN gameRooms : \A t \in Users \ {s} :
                      sockets[t] = "connected"
                      => LeftCount(t, g) = IF s \in gameRooms[g] /\ t \in gameRooms[g]
                                           THEN 1 ELSE 0]_vars

----------------------------------------------------------------------------
(* Requests and socket events addressed to the game of the tables and to a  *)
(* game id that no row has                                                  *)

UnknownRequests == 3

InitUnknown ==
    /\ db = Seated([x |-> 0, y |-> 0])
    /\ reqs = NoRequests
    /\ stunTimers = <<>>
    /\ gameTimers = <<>>
    /\ sockets = [s \in Users |-> "connected"]
    /\ gameRooms = (TheGame :> {1})
    /\ budget = 0
    /\ hist = <<>>
    /\ arg = <<>>
    /\ out = <<>>
    /\ inbox = NoMail
    /\ view = NoViews

NextUnknown ==
    \/ /\ budget < UnknownRequests
       /\ \/ \E g \in Games, u \in Users : Join(1, g, u)
          \/ \E g \in Games, count \in 1..MaxCount : AddAi(1, g, count)
          \/ \E g \in Games : Start(1, g)
          \/ \E g \in Games, p \in Players, t \in Tiles :
                Move(1, g, p, t.x, t.y) /\ UNCHANGED arg
          \/ \E g \in Games, s \in Users : SocketJoinGame(2, s, g)
          \/ \E g \in Games, s \in Users, p \in Players, t \in Tiles :
                SocketPlayerMove(s, g, p, t.x, t.y)
          \/ \E g \in Games, s \in Users : SocketStartGame(s, g)
    \/ StartStep(1)
    \/ MoveStep(1, MaxSeedChoice)
    \/ SocketJoinGameStep(2)
    \/ StunTimeout
    \/ GameTimeout

SpecUnknown == InitUnknown /\ [][NextUnknown]_vars

\* The step takes up a request to an endpoint that is addressed to game g.
EndpointRequest(g) ==
    \/ \E u \in Users : Join(1, g, u)
    \/ \E count \in 1..MaxCount : AddAi(1, g, count)
    \/ Start(1, g)
    \/ \E p \in Players, t \in Tiles : Move(1, g, p, t.x, t.y)

\* The step handles a 'player-move' or 'start-game' event of socket s that
\* is addressed to game g.
SocketEvent(s, g) ==
    \/ \E p \in Players, t \in Tiles : SocketPlayerMove(s, g, p, t.x, t.y)
    \/ SocketStartGame(s, g)

\* The step is one of a 'join-game' handler for game g.
JoinGameStep(g) ==
    /\ reqs[2].kind = "join-game" /\ reqs[2].pc # "done" /\ reqs[2].gameId = g
    /\ reqs'[2] # reqs[2]

\* The step has sent socket s an 'error' and has sent nothing else.
OnlyErrorTo(s) ==
    /\ NewMail(s) # {}
    /\ \A t \in Users : \A m \in NewMail(t) : t = s /\ m.event = "error"

\* Nothing of the tables, the timeouts and the rooms has changed.
NothingChanged ==
    /\ db' = db /\ stunTimers' = stunTimers /\ gameTimers' = gameTimers
    /\ gameRooms' = gameRooms

\* C31: a request or event addressed to a game id that no game has is
\* answered with an error to its caller only and changes no game, player or
\* tile; a socket that asked to join such a game is put in no room.
C31_UnknownGameRejected ==
    [][\A g \in Games \ DOMAIN db.game :
          /\ EndpointRequest(g)
             => /\ NothingChanged /\ inbox' = inbox
                /\ reqs'[1].pc = "done" /\ reqs'[1].response = "Game not found"
          /\ \A s \in Users : SocketEvent(s, g) => NothingChanged /\ OnlyErrorTo(s)
          /\ \A s \in Users : SocketJoinGame(2, s, g) => NothingChanged /\ inbox' = inbox
          /\ JoinGameStep(g)
             => /\ NothingChanged /\ OnlyErrorTo(reqs[2].userId)
                /\ reqs'[2].pc = "done"
          /\ g \notin DOMAIN gameRooms']_vars

\* An endpoint has answered 'Game not found' and a socket has been sent the
\* error of a 'join-game' for a game that does not exist.
C31_Witness ==
    /\ OtherGame \notin DOMAIN db.game
    /\ reqs[1].pc = "done" /\ reqs[1].response = "Game not found"
    /\ \E s \in Users : \E i \in DOMAIN inbox[s] :
          /\ inbox[s][i].event = "error" /\ inbox[s][i].message = "Game not found"
          /\ inbox[s][i].gameId = OtherGame
    /\ db = Seated([x |-> 0, y |-> 0]) /\ gameRooms = (TheGame :> {1})

============================================================================
